---- MODULE Spec2Model ----
(***************************************************************************)
(* Peer-to-peer file transfer of drizzle_explorer.                         *)
(*                                                                         *)
(* Peer "A" runs WebRTCFileTransfer.sendFile, peer "B" runs                *)
(* WebRTCFileTransfer.handleIncomingData; B's main process holds the       *)
(* activeStreams table and the downloads directory.  One ordered data      *)
(* channel carries the frames from A to B.                                 *)
(*                                                                         *)
(* Bytes are not enumerated: byte i of the file sent by sendFile call t is *)
(* the pair (t, i), a chunk is the range [tid, off, len] of such bytes and *)
(* a file on disk is the sequence of ranges written to it, adjacent ranges *)
(* merged.  Two byte strings are equal iff their range sequences are.      *)
(*                                                                         *)
(* An async function runs atomically up to its next await.  An await of an *)
(* IPC call (a window.electronAPI method) is split in two: the main-process *)
(* handler's effect happens when the call is issued (invoke messages are   *)
(* handled in order and the renderer sees the main process only through    *)
(* replies), the continuation runs in a later step, a Resume action.      *)
(***************************************************************************)
EXTENDS Integers, Sequences, FiniteSets, TLC

\* src/unnamed/part_010:20
CHUNK_SIZE == 64 * 1024

\* the backpressure threshold of sendFile, line 167
HighWaterMark == CHUNK_SIZE * 4

\* bound: sendFile calls made on peer A during one session
MaxSends == 2

\* bound: cancelTransfer calls each user makes
MaxCancels == 1

\* bound: chunks the files sent in one session have in all
MaxChunks == 2

\* bound: the same, in the sender-only specification
MaxSendChunks == 4

\* bound: sendFile calls made in the sender-only specification
MaxSenderSends == 1

\* bound: frames the remote peer sends in the receiver-only specification
MaxFrames == 4

\* bound: blobs the user gives to NativeWebRTCWorker.signal
MaxBlobs == 4

\* destroy() calls a user makes on one session
MaxDestroys == 2

Min(a, b) == IF a <= b THEN a ELSE b

Max(a, b) == IF a >= b THEN a ELSE b

\* number of iterations of for (offset = 0; offset < fileSize; offset += CHUNK_SIZE)
NumChunks(s) == (s + CHUNK_SIZE - 1) \div CHUNK_SIZE

\* source file sizes within n chunks: whole chunks, and whole chunks followed
\* by one of tails
SizesUpTo(n, tails) ==
  {s \in {k * CHUNK_SIZE + r : k \in 0..n, r \in tails \cup {0}} : NumChunks(s) <= n}

Tasks == 1..MaxSends

VARIABLES
  connected,          \* peer.connected on A
  transferCancelled,  \* A.transferCancelled
  currentTransfer,    \* [peer -> TransferProgress], this.currentTransfer
  progress,           \* [peer -> the last TransferProgress given to onProgressCallback]
  send,               \* [task -> the locals of that sendFile call]
  nSends,             \* sendFile calls made so far
  srcLen,             \* [task -> current length on disk of the file it sends]
  bufferedAmount,     \* peer._channel.bufferedAmount on A
  chan,               \* frames in flight from A to B, in order
  sent,               \* every frame A handed to peer.send, in order
  receivedMetadata,   \* B.receivedMetadata
  receivedBytes,      \* B.receivedBytes
  writeStreamId,      \* B.writeStreamId (0 is null)
  writeStreamPath,    \* B.writeStreamPath
  handlers,           \* B's handler invocations suspended at an await, in issue order
  streams,            \* every stream init-write-stream created: its path and state
  disk,               \* the downloads directory: [path -> content]
  lastCancel,         \* the cancel B handled last, if no metadata frame came since
  cancels,            \* [peer -> cancelTransfer calls made by its user]
  destroys,           \* [peer -> destroy() calls made by its user]
  ended,              \* [peer -> "no", "closed" ('close' event) or "destroyed" (destroy())]
  errors,             \* [peer -> the messages given to onErrorCallback]
  pendingCandidates,  \* NativeWebRTCWorker.pendingCandidates
  remoteDescriptionSet, \* NativeWebRTCWorker.remoteDescriptionSet
  inbox,              \* messages posted to the worker and not handled yet
  remote,             \* the worker's peer connection: its remote description and candidates
  fed,                \* the blobs given to NativeWebRTCWorker.signal, in order
  worker,             \* [peer -> the peer connection of its worker]
  wbox,               \* [peer -> messages posted to its worker, not handled yet]
  signals,            \* [peer -> the blobs given to its onSignal observer]
  workerSend,         \* the locals of the NativeWebRTCWorker.sendFile call on A
  dataChannelOpen,    \* A's worker: dataChannel && dataChannel.readyState === 'open'
  dataChannelSent,    \* every frame A's worker handed to dataChannel.send, in order
  completeTimers,     \* A's worker: setTimeout callbacks of sendFile not yet run
  webrtcRef,          \* TransferView: webrtcRef.current (0 is null)
  sessions,           \* the WebRTCFileTransfer objects TransferView created
  connectionState,    \* TransferView: connectionState
  messages,           \* TransferView: what showMessage was called with
  peerSignal,         \* TransferView: peerSignal, the text of the input field
  calls,              \* initializeConnection and connectToPeer calls made
  transfer_queue,     \* the rows of table transfer_queue, in rowid order
  seq,                \* the AUTOINCREMENT counter of transfer_queue
  clock,              \* new Date() in the main process
  queueOp,            \* the last call made on the transfer queue and its result
  viewSend            \* [task -> where the TransferView.sendFile call that makes it stands]

vars == <<connected, transferCancelled, currentTransfer, progress, send, nSends,
          srcLen, bufferedAmount, chan, sent, receivedMetadata, receivedBytes,
          writeStreamId, writeStreamPath, handlers, streams, disk, lastCancel,
          cancels, destroys, ended, errors, pendingCandidates, remoteDescriptionSet,
          inbox, remote, fed, worker, wbox, signals, workerSend, dataChannelOpen,
          dataChannelSent, completeTimers, webrtcRef, sessions,
          connectionState, messages, peerSignal, calls, transfer_queue, seq,
          clock, queueOp, viewSend>>

senderVars == <<connected, transferCancelled, send, nSends, srcLen,
                bufferedAmount, sent>>

receiverVars == <<receivedMetadata, receivedBytes, writeStreamId,
                  writeStreamPath, handlers, streams, disk, lastCancel>>

userVars == <<cancels, destroys>>

transportVars == <<ended, errors>>

signalVars == <<pendingCandidates, remoteDescriptionSet, inbox, remote, fed>>

workerSendVars == <<workerSend, dataChannelOpen, dataChannelSent, completeTimers>>

workerVars == <<worker, wbox, signals, workerSend, dataChannelOpen,
                dataChannelSent, completeTimers>>

viewVars == <<webrtcRef, sessions, connectionState, messages, peerSignal, calls>>

queueVars == <<transfer_queue, seq, clock, queueOp, viewSend>>

----------------------------------------------------------------------------
(* TransferProgress *)

NoPath == <<0, 0>>

\* percentage is the exact quotient pctNum / pctDen; 0/0 is NaN, n/0 Infinity
Progress(name, size, bytes, num, den, st) ==
  [fileName |-> name, fileSize |-> size, bytesTransferred |-> bytes,
   pctNum |-> num, pctDen |-> den, status |-> st, error |-> "",
   savedPath |-> NoPath]

\* this.currentTransfer = null
NoTransfer == Progress(0, 0, 0, 0, 1, "null")

\* (bytes / fileSize) * 100
Percentage(bytes, size) == [num |-> bytes * 100, den |-> size]


----------------------------------------------------------------------------
(* Frames on the data channel.  tid names the sendFile call a frame comes  *)
(* from; the code of B never reads it.  json is what a binary payload      *)
(* parses to when decoded as UTF-8 JSON: the control type, or "none".      *)

Frame(type, tid, name, size, off, len, json) ==
  [type |-> type, tid |-> tid, fileName |-> name, fileSize |-> size,
   off |-> off, len |-> len, json |-> json]

\* JSON.stringify({type: 'metadata', fileName, fileSize})
MetadataFrame(t, name, size) == Frame("metadata", t, name, size, 0, 0, "none")

\* JSON.stringify({type: 'complete'})
CompleteFrame(t) == Frame("complete", t, 0, 0, 0, 0, "none")

\* JSON.stringify({type: 'cancel'})
CancelFrame(t) == Frame("cancel", t, 0, 0, 0, 0, "none")

\* byte length of the JSON text of a control message without fields
JsonDocSize(json) == IF json = "complete" THEN 19 ELSE 17

\* the files a user may pick: any content of the sizes n chunks allow, and
\* the files whose whole content is the JSON text of a control message
SourceFiles(n, tails) ==
  {[size |-> s, json |-> "none"] : s \in SizesUpTo(n, tails)}
    \cup {[size |-> JsonDocSize(j), json |-> j] : j \in {"complete", "cancel"}}

\* what new TextDecoder().decode(chunk) parses to: the file's JSON text only
\* when the chunk holds all of it
ChunkJson(json, off, len) ==
  IF json # "none" /\ off = 0 /\ len = JsonDocSize(json) THEN json ELSE "none"

ChunkFrame(t, off, len, json) ==
  Frame("chunk", t, 0, 0, off, len, ChunkJson(json, off, len))

----------------------------------------------------------------------------
(* Peer A: WebRTCFileTransfer.sendFile and cancelTransfer                  *)

IdleSend == [pc |-> "idle", fileSize |-> 0, offset |-> 0, bytesTransferred |-> 0,
             json |-> "none", chunkLen |-> 0]

\* the calls this.currentTransfer = u; this.updateProgress(u) of one step on
\* peer p, for each u of ups in order
Report(p, ups) ==
  /\ progress' = [progress EXCEPT ![p] = @ \o ups]
  /\ currentTransfer' =
       [currentTransfer EXCEPT ![p] = IF ups = <<>> THEN @ ELSE ups[Len(ups)]]

\* this.currentTransfer on peer p after the updates ups of the running step
Current(p, ups) == IF ups = <<>> THEN currentTransfer[p] ELSE ups[Len(ups)]

\* peer.send of each frame of fs
PeerSend(fs) ==
  /\ chan' = chan \o fs
  /\ sent' = sent \o fs

\* the catch block of sendFile, lines 201-211: the update it makes, if any
SendFileCatch(cur, msg) ==
  IF cur.status # "null"
    THEN <<[cur EXCEPT !.status = "error", !.error = msg]>>
    ELSE <<>>

\* the head of the for loop at offset off (lines 155-163) and what follows the
\* loop (lines 191-199).  rec: the locals of call t; pre, ups: the frames
\* sent and the updates made earlier in the same step.
SendLoop(t, rec, off, pre, ups) ==
  IF off < rec.fileSize
    THEN IF transferCancelled
           THEN /\ PeerSend(pre \o <<CancelFrame(t)>>)
                /\ Report("A", ups \o SendFileCatch(Current("A", ups),
                                                    "Transfer cancelled"))
                /\ send' = [send EXCEPT ![t] =
                              [rec EXCEPT !.pc = "failed", !.offset = off]]
           ELSE /\ PeerSend(pre)
                /\ Report("A", ups)
                /\ send' = [send EXCEPT ![t] =
                              [rec EXCEPT !.pc = "readFileChunk", !.offset = off]]
    ELSE /\ PeerSend(pre \o <<CompleteFrame(t)>>)
         /\ Report("A", ups \o <<[Current("A", ups) EXCEPT
                                    !.status = "completed",
                                    !.pctNum = 100, !.pctDen = 1]>>)
         /\ send' = [send EXCEPT ![t] = [rec EXCEPT !.pc = "done", !.offset = off]]

\* sendFile(filePath) up to await getFileInfo, lines 122-131; f is the file
\* at filePath
SendFile(t, f) ==
  /\ t = nSends + 1
  /\ t <= MaxSends
  /\ connected
  /\ send[t].pc = "idle"
  /\ nSends' = t
  /\ transferCancelled' = FALSE
  /\ srcLen' = [srcLen EXCEPT ![t] = f.size]
  /\ send' = [send EXCEPT ![t].pc = "getFileInfo", ![t].json = f.json]
  /\ UNCHANGED <<connected, currentTransfer, progress, bufferedAmount, chan, sent>>
  /\ UNCHANGED receiverVars
  /\ UNCHANGED userVars
  /\ UNCHANGED transportVars
  /\ UNCHANGED signalVars
  /\ UNCHANGED workerVars
  /\ UNCHANGED viewVars
  /\ UNCHANGED queueVars

\* GetFileInfoReturn with the peer.send(metadata) of line 149 left out
GetFileInfoReturnNoMetadata(t) ==
  /\ send[t].pc = "getFileInfo"
  /\ LET size == srcLen[t] IN
       SendLoop(t, [send[t] EXCEPT !.fileSize = size, !.bytesTransferred = 0],
                0, <<>>, <<Progress(t, size, 0, 0, 1, "transferring")>>)
  /\ UNCHANGED <<connected, transferCancelled, nSends, srcLen, bufferedAmount>>
  /\ UNCHANGED receiverVars
  /\ UNCHANGED userVars
  /\ UNCHANGED transportVars
  /\ UNCHANGED signalVars
  /\ UNCHANGED workerVars
  /\ UNCHANGED viewVars
  /\ UNCHANGED queueVars

\* getFileInfo resolves: lines 131-163, the metadata frame and the loop head
GetFileInfoReturn(t) ==
  /\ connected
  /\ send[t].pc = "getFileInfo"
  /\ LET size == srcLen[t] IN
       SendLoop(t, [send[t] EXCEPT !.fileSize = size, !.bytesTransferred = 0],
                0, <<MetadataFrame(t, t, size)>>,
                <<Progress(t, size, 0, 0, 1, "transferring")>>)
  /\ UNCHANGED <<connected, transferCancelled, nSends, srcLen, bufferedAmount>>
  /\ UNCHANGED receiverVars
  /\ UNCHANGED userVars
  /\ UNCHANGED transportVars
  /\ UNCHANGED signalVars
  /\ UNCHANGED workerVars
  /\ UNCHANGED viewVars
  /\ UNCHANGED queueVars

\* peer.send(chunk) and the rest of the loop body, lines 171-188
SendChunk(t, rec) ==
  LET bytes == rec.bytesTransferred + rec.chunkLen
      pct == Percentage(bytes, rec.fileSize)
  IN  /\ PeerSend(<<ChunkFrame(t, rec.offset, rec.chunkLen, rec.json)>>)
      /\ Report("A", <<Progress(t, rec.fileSize, bytes, pct.num, pct.den,
                                "transferring")>>)
      /\ send' = [send EXCEPT ![t] =
                    [rec EXCEPT !.pc = "yield", !.bytesTransferred = bytes]]

\* readFileChunk resolves with buffer.slice(0, bytesRead): lines 163-171.
\* read-file-chunk reads what the file holds now (part_014 lines 371-382).
ReadFileChunkReturn(t) ==
  /\ connected
  /\ send[t].pc = "readFileChunk"
  /\ LET chunkSize == Min(CHUNK_SIZE, send[t].fileSize - send[t].offset)
         bytesRead == Min(chunkSize, Max(0, srcLen[t] - send[t].offset))
         rec == [send[t] EXCEPT !.chunkLen = bytesRead]
     IN  IF bufferedAmount > HighWaterMark
           THEN /\ send' = [send EXCEPT ![t] = [rec EXCEPT !.pc = "backpressure"]]
                /\ UNCHANGED <<chan, sent, currentTransfer, progress>>
           ELSE SendChunk(t, rec)
  /\ UNCHANGED <<connected, transferCancelled, nSends, srcLen, bufferedAmount>>
  /\ UNCHANGED receiverVars
  /\ UNCHANGED userVars
  /\ UNCHANGED transportVars
  /\ UNCHANGED signalVars
  /\ UNCHANGED workerVars
  /\ UNCHANGED viewVars
  /\ UNCHANGED queueVars

\* BackpressureReturn with the test of bufferedAmount left out
BackpressureReturnUnchecked(t) ==
  /\ send[t].pc = "backpressure"
  /\ SendChunk(t, send[t])
  /\ UNCHANGED <<connected, transferCancelled, nSends, srcLen, bufferedAmount>>
  /\ UNCHANGED receiverVars
  /\ UNCHANGED userVars
  /\ UNCHANGED transportVars
  /\ UNCHANGED signalVars
  /\ UNCHANGED workerVars
  /\ UNCHANGED viewVars
  /\ UNCHANGED queueVars

\* the 10 ms timer of the backpressure loop fires and the loop ends, lines 167-171
BackpressureReturn(t) ==
  /\ connected
  /\ send[t].pc = "backpressure"
  /\ ~(bufferedAmount > HighWaterMark)
  /\ SendChunk(t, send[t])
  /\ UNCHANGED <<connected, transferCancelled, nSends, srcLen, bufferedAmount>>
  /\ UNCHANGED receiverVars
  /\ UNCHANGED userVars
  /\ UNCHANGED transportVars
  /\ UNCHANGED signalVars
  /\ UNCHANGED workerVars
  /\ UNCHANGED viewVars
  /\ UNCHANGED queueVars

\* YieldReturn with the loop stepping by two chunks
YieldReturnSkips(t) ==
  /\ send[t].pc = "yield"
  /\ SendLoop(t, send[t], send[t].offset + 2 * CHUNK_SIZE, <<>>, <<>>)
  /\ UNCHANGED <<connected, transferCancelled, nSends, srcLen, bufferedAmount>>
  /\ UNCHANGED receiverVars
  /\ UNCHANGED userVars
  /\ UNCHANGED transportVars
  /\ UNCHANGED signalVars
  /\ UNCHANGED workerVars
  /\ UNCHANGED viewVars
  /\ UNCHANGED queueVars

\* setTimeout(resolve, 0) fires: offset += CHUNK_SIZE and the loop head again
YieldReturn(t) ==
  /\ connected
  /\ send[t].pc = "yield"
  /\ SendLoop(t, send[t], send[t].offset + CHUNK_SIZE, <<>>, <<>>)
  /\ UNCHANGED <<connected, transferCancelled, nSends, srcLen, bufferedAmount>>
  /\ UNCHANGED receiverVars
  /\ UNCHANGED userVars
  /\ UNCHANGED transportVars
  /\ UNCHANGED signalVars
  /\ UNCHANGED workerVars
  /\ UNCHANGED viewVars
  /\ UNCHANGED queueVars

\* cancelTransfer() on A, lines 393-414 (A holds no write stream)
CancelTransferA ==
  /\ cancels["A"] < MaxCancels
  /\ cancels' = [cancels EXCEPT !["A"] = @ + 1]
  /\ UNCHANGED destroys
  /\ transferCancelled' = TRUE
  /\ IF currentTransfer["A"].status # "null"
       THEN Report("A", <<[currentTransfer["A"] EXCEPT !.status = "cancelled"]>>)
       ELSE UNCHANGED <<currentTransfer, progress>>
  /\ UNCHANGED <<connected, send, nSends, srcLen, bufferedAmount, chan, sent>>
  /\ UNCHANGED receiverVars
  /\ UNCHANGED transportVars
  /\ UNCHANGED signalVars
  /\ UNCHANGED workerVars
  /\ UNCHANGED viewVars
  /\ UNCHANGED queueVars

\* the 'connect' event of A's peer, lines 56-61
Connect ==
  /\ ended["A"] = "no"
  /\ ~connected
  /\ connected' = TRUE
  /\ UNCHANGED <<transferCancelled, currentTransfer, progress, send, nSends,
                 srcLen, bufferedAmount, chan, sent>>
  /\ UNCHANGED receiverVars
  /\ UNCHANGED userVars
  /\ UNCHANGED transportVars
  /\ UNCHANGED signalVars
  /\ UNCHANGED workerVars
  /\ UNCHANGED viewVars
  /\ UNCHANGED queueVars

\* the file a running sendFile reads is truncated by another program before
\* read-file-chunk reads it (a truncation at any other moment of the loop
\* shows at the next read only)
ShrinkFile(t, n) ==
  /\ send[t].pc = "readFileChunk"
  /\ n < srcLen[t]
  /\ srcLen' = [srcLen EXCEPT ![t] = n]
  /\ UNCHANGED <<connected, transferCancelled, currentTransfer, progress, send,
                 nSends, bufferedAmount, chan, sent>>
  /\ UNCHANGED receiverVars
  /\ UNCHANGED userVars
  /\ UNCHANGED transportVars
  /\ UNCHANGED signalVars
  /\ UNCHANGED workerVars
  /\ UNCHANGED viewVars
  /\ UNCHANGED queueVars

\* the transport queues or transmits outgoing data: bufferedAmount changes
\* (sendFile reads it after readFileChunk and after each 10 ms wait only)
SetBufferedAmount(b) ==
  /\ connected
  /\ \E t \in Tasks : send[t].pc \in {"readFileChunk", "backpressure"}
  /\ b # bufferedAmount
  /\ bufferedAmount' = b
  /\ UNCHANGED <<connected, transferCancelled, currentTransfer, progress, send,
                 nSends, srcLen, chan, sent>>
  /\ UNCHANGED receiverVars
  /\ UNCHANGED userVars
  /\ UNCHANGED transportVars
  /\ UNCHANGED signalVars
  /\ UNCHANGED workerVars
  /\ UNCHANGED viewVars
  /\ UNCHANGED queueVars


----------------------------------------------------------------------------
(* B's main process: the write-stream IPC handlers of part_014             *)

\* a file's content after writing the bytes of range r at its end
AppendRange(content, r) ==
  IF r.len = 0 THEN content
  ELSE IF content # <<>>
          /\ content[Len(content)].tid = r.tid
          /\ content[Len(content)].off + content[Len(content)].len = r.off
    THEN [content EXCEPT ![Len(content)].len = @ + r.len]
    ELSE Append(content, r)

\* fs.access(path) succeeds
Exists(path) == path \in DOMAIN disk

\* the while loop of init-write-stream, lines 417-424: <<name, 0>> is the
\* path of fileName itself, <<name, n>> that of "baseName (n)ext"
RECURSIVE ProbePath(_, _)
ProbePath(name, counter) ==
  IF Exists(<<name, counter>>) THEN ProbePath(name, counter + 1)
  ELSE <<name, counter>>

\* activeStreams.get(streamId) finds a stream
Active(id) == id \in 1..Len(streams) /\ streams[id].st \in {"open", "ending"}

\* the paths the probe loop of init-write-stream may end on for fileName
\* name.  The loop awaits fs.access at every turn (line 421), so a call made
\* while an earlier call for the same name has not replied yet may probe
\* before that call created its file, and then ends on the same path.
InitPaths(name) ==
  {ProbePath(name, 0)} \cup
    {handlers[j].path : j \in {k \in 1..Len(handlers) :
                                 /\ handlers[k].kind = "metadata"
                                 /\ handlers[k].fileName = name}}

\* init-write-stream, lines 410-436: the new table and directory;
\* createWriteStream(finalPath) creates the file, or empties the one there
InitWriteStream(finalPath) ==
  /\ streams' = Append(streams, [path |-> finalPath, st |-> "open"])
  /\ disk' = (finalPath :> <<>>) @@ disk

\* write-chunk, lines 438-459: stream.write(chunk) appends to the file of an
\* open stream; a missing stream and a write after end() reject
WriteChunkReply(id) == IF Active(id) /\ streams[id].st = "open" THEN "ok" ELSE "err"

WriteChunk(id, r) ==
  /\ disk' = IF WriteChunkReply(id) = "ok"
               THEN [disk EXCEPT ![streams[id].path] = AppendRange(@, r)]
               ELSE disk
  /\ UNCHANGED streams

\* finalize-write-stream, lines 461-479: stream.end(callback)
FinalizeReply(id) == IF Active(id) THEN "ok" ELSE "err"

FinalizeWriteStream(id) ==
  /\ streams' = IF Active(id) THEN [streams EXCEPT ![id].st = "ending"] ELSE streams
  /\ UNCHANGED disk

\* the callback of stream.end: activeStreams.delete(streamId), line 471
StreamFinished(table, id) ==
  IF id \in 1..Len(table) /\ table[id].st = "ending"
    THEN [table EXCEPT ![id].st = "finished"] ELSE table

\* cancel-write-stream, lines 481-491: stream.destroy() and
\* activeStreams.delete; the file created by createWriteStream stays
CancelWriteStream(id) ==
  /\ streams' = IF Active(id) THEN [streams EXCEPT ![id].st = "destroyed"] ELSE streams
  /\ UNCHANGED disk

----------------------------------------------------------------------------
(* Peer B: WebRTCFileTransfer.handleIncomingData and its continuations     *)

NoMetadata == [present |-> FALSE, fileName |-> 0, fileSize |-> 0]

\* lastCancel when B handled no cancel since the last metadata frame; else by
\* is "cancel" (the frame) or "cancelTransfer" (B's user) and stream the
\* stream it passed to cancelWriteStream (0: none)
NoCancel == [by |-> "none", stream |-> 0]

\* a handler invocation suspended at an await of an IPC call.  slow: the
\* reply waits for an event of the main process (the fs.access probes of
\* init-write-stream, 'drain', the end callback), so later replies overtake it
Handler(kind, id, path, reply, slow, name, size, len) ==
  [kind |-> kind, stream |-> id, path |-> path, reply |-> reply, slow |-> slow,
   fileName |-> name, fileSize |-> size, len |-> len]

\* a metadata message without fileName: path.join(downloadsPath, undefined)
\* throws in init-write-stream (part_014 line 413), which rejects with
\* 'Failed to initialize write stream' (line 434) and creates nothing
NoName == 0

\* handleControlMessage, type 'metadata', up to await initWriteStream:
\* lines 282-292
HandleMetadata(f) ==
  /\ receivedMetadata' =
       [present |-> TRUE, fileName |-> f.fileName, fileSize |-> f.fileSize]
  /\ receivedBytes' = 0
  /\ lastCancel' = NoCancel
  /\ IF f.fileName = NoName
       THEN /\ handlers' = Append(handlers,
                 Handler("metadata", 0, NoPath, "err", FALSE,
                         f.fileName, f.fileSize, 0))
            /\ UNCHANGED <<streams, disk>>
       ELSE \E finalPath \in InitPaths(f.fileName) :
              /\ InitWriteStream(finalPath)
              /\ handlers' = Append(handlers,
                   Handler("metadata", Len(streams) + 1, finalPath, "ok",
                           TRUE, f.fileName, f.fileSize, 0))
  /\ UNCHANGED <<writeStreamId, writeStreamPath, currentTransfer, progress>>

\* handleControlMessage, type 'complete': finalizeReceivedFile up to
\* await finalizeWriteStream, lines 339-354
HandleComplete ==
  IF ~receivedMetadata.present \/ writeStreamId = 0
    THEN UNCHANGED <<receivedMetadata, receivedBytes, writeStreamId,
                     writeStreamPath, handlers, streams, disk, lastCancel,
                     currentTransfer, progress>>
    ELSE /\ FinalizeWriteStream(writeStreamId)
         /\ handlers' = Append(handlers,
              Handler("complete", writeStreamId, NoPath,
                      FinalizeReply(writeStreamId),
                      FinalizeReply(writeStreamId) = "ok", 0, 0, 0))
         /\ UNCHANGED <<receivedMetadata, receivedBytes, writeStreamId,
                        writeStreamPath, lastCancel, currentTransfer, progress>>

\* the rest of the 'cancel' branch, lines 327-335
CancelTail ==
  /\ IF currentTransfer["B"].status # "null"
       THEN Report("B", <<[currentTransfer["B"] EXCEPT !.status = "cancelled"]>>)
       ELSE UNCHANGED <<currentTransfer, progress>>
  /\ receivedMetadata' = NoMetadata
  /\ receivedBytes' = 0

\* handleControlMessage, type 'cancel', lines 321-336
HandleCancel ==
  IF writeStreamId # 0
    THEN /\ CancelWriteStream(writeStreamId)
         /\ handlers' = Append(handlers,
              Handler("cancel", writeStreamId, NoPath, "ok", FALSE, 0, 0, 0))
         /\ UNCHANGED <<receivedMetadata, receivedBytes, writeStreamId,
                        writeStreamPath, lastCancel, currentTransfer, progress>>
    ELSE /\ CancelTail
         /\ lastCancel' = [by |-> "cancel", stream |-> 0]
         /\ UNCHANGED <<writeStreamId, writeStreamPath, handlers, streams, disk>>

\* handleIncomingData, binary chunk, lines 255-278; canContinue is what
\* stream.write returned in write-chunk
HandleChunk(f, canContinue) ==
  IF receivedMetadata.present /\ writeStreamId # 0
    THEN /\ WriteChunk(writeStreamId, [tid |-> f.tid, off |-> f.off, len |-> f.len])
         /\ handlers' = Append(handlers,
              Handler("chunk", writeStreamId, NoPath,
                      WriteChunkReply(writeStreamId),
                      WriteChunkReply(writeStreamId) = "ok" /\ ~canContinue,
                      0, 0, f.len))
         /\ UNCHANGED <<receivedMetadata, receivedBytes, writeStreamId,
                        writeStreamPath, lastCancel, currentTransfer, progress>>
    ELSE /\ canContinue
         /\ UNCHANGED <<receivedMetadata, receivedBytes, writeStreamId,
                        writeStreamPath, handlers, streams, disk, lastCancel,
                        currentTransfer, progress>>

\* what handleIncomingData takes a frame for, lines 223-253: a binary frame
\* that decodes to JSON with a type field is a control message
ControlType(f) == IF f.type = "chunk" THEN f.json ELSE f.type

\* the 'data' event of B's peer, line 87: handleIncomingData(data) up to its
\* first await; a peer that has closed emits no 'data'
Deliver ==
  /\ ended["B"] = "no"
  /\ chan # <<>>
  /\ chan' = Tail(chan)
  /\ LET f == Head(chan) IN
       \/ ControlType(f) = "metadata" /\ HandleMetadata(f)
       \/ ControlType(f) = "complete" /\ HandleComplete
       \/ ControlType(f) = "cancel" /\ HandleCancel
       \/ ControlType(f) = "none" /\ \E c \in BOOLEAN : HandleChunk(f, c)
  /\ UNCHANGED senderVars
  /\ UNCHANGED userVars
  /\ UNCHANGED transportVars
  /\ UNCHANGED signalVars
  /\ UNCHANGED workerVars
  /\ UNCHANGED viewVars
  /\ UNCHANGED queueVars


\* handlers without entry i and without the chunk handlers before i that
\* wait for 'drain' of stream id: a stream that was destroyed or has finished
\* emits no 'drain', so their writeChunk never resolves
RECURSIVE Others(_, _, _)
Others(i, id, j) ==
  IF j > Len(handlers) THEN <<>>
  ELSE (IF j = i \/ (j < i /\ handlers[j].kind = "chunk" /\ handlers[j].stream = id)
          THEN <<>> ELSE <<handlers[j]>>) \o Others(i, id, j + 1)

\* the reply to handler i may arrive now: replies sent at once arrive in the
\* order of the calls, and the writes waiting for 'drain' of one stream
\* resolve in the order they were made
CanResume(i) ==
  /\ i \in 1..Len(handlers)
  /\ \A j \in 1..(i - 1) :
       /\ handlers[j].slow
       /\ ~(handlers[j].kind = "chunk" /\ handlers[i].kind = "chunk"
            /\ handlers[j].stream = handlers[i].stream)

\* initWriteStream resolves, lines 293-317, or rejects, lines 296-307
ResumeMetadata(i) ==
  /\ CanResume(i)
  /\ handlers[i].kind = "metadata"
  /\ handlers' = Others(i, 0, 1)
  /\ IF handlers[i].reply = "ok"
       THEN /\ writeStreamId' = handlers[i].stream
            /\ writeStreamPath' = handlers[i].path
            /\ Report("B", <<Progress(handlers[i].fileName, handlers[i].fileSize,
                                      0, 0, 1, "transferring")>>)
       ELSE /\ UNCHANGED <<writeStreamId, writeStreamPath>>
            /\ IF currentTransfer["B"].status # "null"
                 THEN Report("B", <<[currentTransfer["B"] EXCEPT
                                       !.status = "error",
                                       !.error = "Failed to initialize write stream"]>>)
                 ELSE UNCHANGED <<currentTransfer, progress>>
  /\ UNCHANGED <<receivedMetadata, receivedBytes, streams, disk, lastCancel,
                 chan, cancels, destroys>>
  /\ UNCHANGED senderVars
  /\ UNCHANGED transportVars
  /\ UNCHANGED signalVars
  /\ UNCHANGED workerVars
  /\ UNCHANGED viewVars
  /\ UNCHANGED queueVars

\* writeChunk resolves or rejects: lines 262-274.  Nothing catches a
\* rejection, nor the TypeError of this.receivedMetadata.fileSize on null.
ResumeChunk(i) ==
  /\ CanResume(i)
  /\ handlers[i].kind = "chunk"
  /\ handlers' = Others(i, 0, 1)
  /\ IF handlers[i].reply = "ok"
       THEN /\ receivedBytes' = receivedBytes + handlers[i].len
            /\ IF receivedMetadata.present
                 THEN LET pct == Percentage(receivedBytes + handlers[i].len,
                                            receivedMetadata.fileSize)
                      IN  Report("B", <<Progress(receivedMetadata.fileName,
                                                 receivedMetadata.fileSize,
                                                 receivedBytes + handlers[i].len,
                                                 pct.num, pct.den, "transferring")>>)
                 ELSE UNCHANGED <<currentTransfer, progress>>
       ELSE UNCHANGED <<receivedBytes, currentTransfer, progress>>
  /\ UNCHANGED <<receivedMetadata, writeStreamId, writeStreamPath, streams,
                 disk, lastCancel, chan, cancels, destroys>>
  /\ UNCHANGED senderVars
  /\ UNCHANGED transportVars
  /\ UNCHANGED signalVars
  /\ UNCHANGED workerVars
  /\ UNCHANGED viewVars
  /\ UNCHANGED queueVars

\* finalizeWriteStream resolves or rejects: lines 356-384
ResumeComplete(i) ==
  /\ CanResume(i)
  /\ handlers[i].kind = "complete"
  /\ handlers' = Others(i, handlers[i].stream, 1)
  /\ streams' = StreamFinished(streams, handlers[i].stream)
  /\ IF handlers[i].reply = "ok"
       THEN /\ IF currentTransfer["B"].status # "null"
                 THEN Report("B", <<[currentTransfer["B"] EXCEPT
                                       !.status = "completed",
                                       !.pctNum = 100, !.pctDen = 1,
                                       !.savedPath = writeStreamPath]>>)
                 ELSE UNCHANGED <<currentTransfer, progress>>
            /\ writeStreamId' = 0
            /\ writeStreamPath' = NoPath
            /\ receivedMetadata' = NoMetadata
            /\ receivedBytes' = 0
       ELSE /\ IF currentTransfer["B"].status # "null"
                 THEN Report("B", <<[currentTransfer["B"] EXCEPT
                                       !.status = "error",
                                       !.error = "Failed to finalize write stream"]>>)
                 ELSE UNCHANGED <<currentTransfer, progress>>
            /\ UNCHANGED <<writeStreamId, writeStreamPath, receivedMetadata,
                           receivedBytes>>
  /\ UNCHANGED <<disk, lastCancel, chan, cancels, destroys>>
  /\ UNCHANGED senderVars
  /\ UNCHANGED transportVars
  /\ UNCHANGED signalVars
  /\ UNCHANGED workerVars
  /\ UNCHANGED viewVars
  /\ UNCHANGED queueVars

\* cancelWriteStream resolves in the 'cancel' branch: lines 324-335
ResumeCancel(i) ==
  /\ CanResume(i)
  /\ handlers[i].kind = "cancel"
  /\ handlers' = Others(i, handlers[i].stream, 1)
  /\ writeStreamId' = 0
  /\ writeStreamPath' = NoPath
  /\ CancelTail
  /\ lastCancel' = [by |-> "cancel", stream |-> handlers[i].stream]
  /\ UNCHANGED <<streams, disk, chan, cancels, destroys>>
  /\ UNCHANGED senderVars
  /\ UNCHANGED transportVars
  /\ UNCHANGED signalVars
  /\ UNCHANGED workerVars
  /\ UNCHANGED viewVars
  /\ UNCHANGED queueVars

\* the rest of cancelTransfer, lines 407-413
CancelTransferTail ==
  IF currentTransfer["B"].status # "null"
    THEN Report("B", <<[currentTransfer["B"] EXCEPT !.status = "cancelled"]>>)
    ELSE UNCHANGED <<currentTransfer, progress>>

\* cancelTransfer() on B up to await cancelWriteStream, lines 393-399
CancelTransferB ==
  /\ cancels["B"] < MaxCancels
  /\ cancels' = [cancels EXCEPT !["B"] = @ + 1]
  /\ UNCHANGED destroys
  /\ IF writeStreamId # 0
       THEN /\ CancelWriteStream(writeStreamId)
            /\ handlers' = Append(handlers,
                 Handler("cancelTransfer", writeStreamId, NoPath, "ok", FALSE,
                         0, 0, 0))
            /\ UNCHANGED <<currentTransfer, progress, lastCancel>>
       ELSE /\ CancelTransferTail
            /\ lastCancel' = [by |-> "cancelTransfer", stream |-> 0]
            /\ UNCHANGED <<handlers, streams, disk>>
  /\ UNCHANGED <<receivedMetadata, receivedBytes, writeStreamId,
                 writeStreamPath, chan>>
  /\ UNCHANGED senderVars
  /\ UNCHANGED transportVars
  /\ UNCHANGED signalVars
  /\ UNCHANGED workerVars
  /\ UNCHANGED viewVars
  /\ UNCHANGED queueVars

\* cancelWriteStream resolves in cancelTransfer: lines 403-413
ResumeCancelTransfer(i) ==
  /\ CanResume(i)
  /\ handlers[i].kind = "cancelTransfer"
  /\ handlers' = Others(i, handlers[i].stream, 1)
  /\ writeStreamId' = 0
  /\ writeStreamPath' = NoPath
  /\ CancelTransferTail
  /\ lastCancel' = [by |-> "cancelTransfer", stream |-> handlers[i].stream]
  /\ UNCHANGED <<receivedMetadata, receivedBytes, streams, disk, chan, cancels, destroys>>
  /\ UNCHANGED senderVars
  /\ UNCHANGED transportVars
  /\ UNCHANGED signalVars
  /\ UNCHANGED workerVars
  /\ UNCHANGED viewVars
  /\ UNCHANGED queueVars

----------------------------------------------------------------------------
(* Transport events of a peer: the 'error' and 'close' events of simple-peer *)

\* the 'error' event of p's peer, lines 70-85: the error callback, and an
\* update that is given to the observer but not stored in currentTransfer.
\* simple-peer destroys a peer that fails, so it is no longer connected.
PeerError(p) ==
  /\ ended[p] = "no"
  /\ ended' = [ended EXCEPT ![p] = "errored"]
  /\ errors' = [errors EXCEPT ![p] = Append(@, "transport")]
  /\ progress' =
       IF currentTransfer[p].status # "null"
         THEN [progress EXCEPT ![p] =
                 Append(@, [currentTransfer[p] EXCEPT !.status = "error",
                                                     !.error = "transport"])]
         ELSE progress
  /\ connected' = IF p = "A" THEN FALSE ELSE connected
  /\ UNCHANGED <<transferCancelled, currentTransfer, send, nSends, srcLen,
                 bufferedAmount, chan, sent>>
  /\ UNCHANGED receiverVars
  /\ UNCHANGED userVars
  /\ UNCHANGED signalVars
  /\ UNCHANGED workerVars
  /\ UNCHANGED viewVars
  /\ UNCHANGED queueVars

\* the 'close' event of p's peer, lines 63-68: only the connection callback
Close(p) ==
  /\ ended[p] \in {"no", "errored"}
  /\ ended' = [ended EXCEPT ![p] = "closed"]
  /\ connected' = IF p = "A" THEN FALSE ELSE connected
  /\ UNCHANGED <<transferCancelled, currentTransfer, progress, send, nSends,
                 srcLen, bufferedAmount, chan, sent, errors>>
  /\ UNCHANGED receiverVars
  /\ UNCHANGED userVars
  /\ UNCHANGED signalVars
  /\ UNCHANGED workerVars
  /\ UNCHANGED viewVars
  /\ UNCHANGED queueVars

\* destroy() on A, lines 416-428: peer.destroy() and this.peer = null (A
\* holds no write stream)
DestroyA ==
  /\ ended["A"] # "destroyed"
  /\ ended' = [ended EXCEPT !["A"] = "destroyed"]
  /\ connected' = FALSE
  /\ UNCHANGED <<transferCancelled, currentTransfer, progress, send, nSends,
                 srcLen, bufferedAmount, chan, sent, errors>>
  /\ UNCHANGED receiverVars
  /\ UNCHANGED cancels
  /\ destroys' = [destroys EXCEPT !["A"] = @ + 1]
  /\ UNCHANGED signalVars
  /\ UNCHANGED workerVars
  /\ UNCHANGED viewVars
  /\ UNCHANGED queueVars

\* destroy() on B, lines 416-428: peer.destroy() and this.peer = null if
\* there is a peer; cancelWriteStream(writeStreamId) if there is one, its
\* promise only given a catch, and both fields set to null at once
DestroyB ==
  /\ destroys["B"] < MaxDestroys
  /\ destroys' = [destroys EXCEPT !["B"] = @ + 1]
  /\ ended' = [ended EXCEPT !["B"] = "destroyed"]
  /\ IF writeStreamId # 0
       THEN CancelWriteStream(writeStreamId)
       ELSE UNCHANGED <<streams, disk>>
  /\ writeStreamId' = 0
  /\ writeStreamPath' = NoPath
  /\ UNCHANGED <<receivedMetadata, receivedBytes, handlers, lastCancel,
                 currentTransfer, progress, chan, cancels, errors>>
  /\ UNCHANGED senderVars
  /\ UNCHANGED signalVars
  /\ UNCHANGED workerVars
  /\ UNCHANGED viewVars
  /\ UNCHANGED queueVars

\* TransferContext.closeTransfer, lines 37-44, in the view that holds B's
\* session: destroy() on it, then webrtcRef.current = null
CloseTransfer ==
  /\ webrtcRef # 0
  /\ webrtcRef' = 0
  /\ sessions' = [sessions EXCEPT ![webrtcRef].peer = "destroyed"]
  /\ destroys' = [destroys EXCEPT !["B"] = @ + 1]
  /\ ended' = [ended EXCEPT !["B"] = "destroyed"]
  /\ IF writeStreamId # 0
       THEN CancelWriteStream(writeStreamId)
       ELSE UNCHANGED <<streams, disk>>
  /\ writeStreamId' = 0
  /\ writeStreamPath' = NoPath
  /\ UNCHANGED <<receivedMetadata, receivedBytes, handlers, lastCancel,
                 currentTransfer, progress, chan, cancels, errors>>
  /\ UNCHANGED <<connectionState, messages, peerSignal, calls>>
  /\ UNCHANGED senderVars
  /\ UNCHANGED signalVars
  /\ UNCHANGED workerVars
  /\ UNCHANGED queueVars

\* SendFileNotConnected with lines 127 and 123-125 in the other order
SendFileNotConnectedResets(t) ==
  /\ t = nSends + 1
  /\ t <= MaxSends
  /\ ~connected
  /\ nSends' = t
  /\ transferCancelled' = FALSE
  /\ send' = [send EXCEPT ![t].pc = "notConnected"]
  /\ UNCHANGED <<connected, currentTransfer, progress, srcLen,
                 bufferedAmount, chan, sent>>
  /\ UNCHANGED receiverVars
  /\ UNCHANGED userVars
  /\ UNCHANGED transportVars
  /\ UNCHANGED signalVars
  /\ UNCHANGED workerVars
  /\ UNCHANGED viewVars
  /\ UNCHANGED queueVars

\* sendFile(filePath) while !this.peer || !this.peer.connected, lines
\* 123-125: throws 'Peer not connected' before anything else
SendFileNotConnected(t) ==
  /\ t = nSends + 1
  /\ t <= MaxSends
  /\ ~connected
  /\ nSends' = t
  /\ send' = [send EXCEPT ![t].pc = "notConnected"]
  /\ UNCHANGED <<connected, transferCancelled, currentTransfer, progress,
                 srcLen, bufferedAmount, chan, sent>>
  /\ UNCHANGED receiverVars
  /\ UNCHANGED userVars
  /\ UNCHANGED transportVars
  /\ UNCHANGED signalVars
  /\ UNCHANGED workerVars
  /\ UNCHANGED viewVars
  /\ UNCHANGED queueVars

\* call t fails in its catch block (lines 201-211) after the updates ups of
\* the same step: this.peer.send throws once the peer is closed or null
SendThrows(t, rec, ups) ==
  /\ Report("A", ups \o SendFileCatch(Current("A", ups), "cannot send"))
  /\ send' = [send EXCEPT ![t] = [rec EXCEPT !.pc = "failed"]]
  /\ UNCHANGED <<chan, sent>>

\* getFileInfo resolves after the peer closed: lines 131-149, the send of
\* the metadata throws
GetFileInfoReturnClosed(t) ==
  /\ ~connected
  /\ send[t].pc = "getFileInfo"
  /\ LET size == srcLen[t] IN
       SendThrows(t, [send[t] EXCEPT !.fileSize = size, !.bytesTransferred = 0],
                  <<Progress(t, size, 0, 0, 1, "transferring")>>)
  /\ UNCHANGED <<connected, transferCancelled, nSends, srcLen, bufferedAmount>>
  /\ UNCHANGED receiverVars
  /\ UNCHANGED userVars
  /\ UNCHANGED transportVars
  /\ UNCHANGED signalVars
  /\ UNCHANGED workerVars
  /\ UNCHANGED viewVars
  /\ UNCHANGED queueVars

\* readFileChunk resolves after the peer closed: lines 163-171, the send of
\* the chunk throws
ReadFileChunkReturnClosed(t) ==
  /\ ~connected
  /\ send[t].pc = "readFileChunk"
  /\ SendThrows(t, send[t], <<>>)
  /\ UNCHANGED <<connected, transferCancelled, nSends, srcLen, bufferedAmount>>
  /\ UNCHANGED receiverVars
  /\ UNCHANGED userVars
  /\ UNCHANGED transportVars
  /\ UNCHANGED signalVars
  /\ UNCHANGED workerVars
  /\ UNCHANGED viewVars
  /\ UNCHANGED queueVars

\* setTimeout(resolve, 0) fires after the peer closed: the loop head reads on
\* if a chunk is left and the call is not cancelled; the send of the cancel
\* or of the complete frame throws
YieldReturnClosed(t) ==
  /\ ~connected
  /\ send[t].pc = "yield"
  /\ LET off == send[t].offset + CHUNK_SIZE IN
       IF off < send[t].fileSize /\ ~transferCancelled
         THEN /\ send' = [send EXCEPT ![t].pc = "readFileChunk", ![t].offset = off]
              /\ UNCHANGED <<chan, sent, currentTransfer, progress>>
         ELSE SendThrows(t, [send[t] EXCEPT !.offset = off], <<>>)
  /\ UNCHANGED <<connected, transferCancelled, nSends, srcLen, bufferedAmount>>
  /\ UNCHANGED receiverVars
  /\ UNCHANGED userVars
  /\ UNCHANGED transportVars
  /\ UNCHANGED signalVars
  /\ UNCHANGED workerVars
  /\ UNCHANGED viewVars
  /\ UNCHANGED queueVars

\* the remote peer hands frame f to the channel
PeerSends(f) ==
  /\ ended["B"] = "no"
  /\ Len(sent) < MaxFrames
  /\ chan' = Append(chan, f)
  /\ sent' = Append(sent, f)
  /\ UNCHANGED <<connected, transferCancelled, currentTransfer, progress, send,
                 nSends, srcLen, bufferedAmount>>
  /\ UNCHANGED receiverVars
  /\ UNCHANGED userVars
  /\ UNCHANGED transportVars
  /\ UNCHANGED signalVars
  /\ UNCHANGED workerVars
  /\ UNCHANGED viewVars
  /\ UNCHANGED queueVars

----------------------------------------------------------------------------
(* Signaling through the worker: NativeWebRTCWorker.signal (part_011) and   *)
(* the 'signal' case of the worker's onmessage (part_009).  The peer that   *)
(* is signalled is B.                                                        *)

\* a blob the remote peer produced: a session description (signalData.sdp
\* is set) or the n-th ICE candidate (signalData.candidate is set)
SdpBlob(type) == [sdp |-> type, candidate |-> 0]

CandidateBlob(n) == [sdp |-> "none", candidate |-> n]

\* the candidates among the blobs of bs, in order
RECURSIVE CandidatesOf(_)
CandidatesOf(bs) ==
  IF bs = <<>> THEN <<>>
  ELSE (IF Head(bs).sdp = "none" THEN <<Head(bs).candidate>> ELSE <<>>)
         \o CandidatesOf(Tail(bs))

\* pendingCandidates as {candidate} messages, what the while loop of lines
\* 139-145 posts
RECURSIVE Flushed(_)
Flushed(cs) ==
  IF cs = <<>> THEN <<>> ELSE <<CandidateBlob(Head(cs))>> \o Flushed(Tail(cs))

\* NativeWebRTCWorker.signal(signalData), lines 127-147: the blob is posted
\* to the worker whatever it is; a session description then sets
\* remoteDescriptionSet and posts the pending candidates.  Nothing in the
\* class ever adds to pendingCandidates.
Signal(blob) ==
  /\ Len(fed) < MaxBlobs
  /\ fed' = Append(fed, blob)
  /\ IF blob.sdp # "none"
       THEN /\ remoteDescriptionSet' = TRUE
            /\ inbox' = Append(inbox, blob) \o Flushed(pendingCandidates)
            /\ pendingCandidates' = <<>>
       ELSE /\ inbox' = Append(inbox, blob)
            /\ UNCHANGED <<remoteDescriptionSet, pendingCandidates>>
  /\ UNCHANGED <<remote, errors, ended, cancels, destroys>>
  /\ UNCHANGED senderVars
  /\ UNCHANGED receiverVars
  /\ UNCHANGED <<currentTransfer, progress, chan>>
  /\ UNCHANGED workerVars
  /\ UNCHANGED viewVars
  /\ UNCHANGED queueVars

\* the worker handles a 'signal' message, part_009 lines 358-382:
\* setRemoteDescription for a session description; addIceCandidate for a
\* candidate, which the peer connection rejects while it has no remote
\* description, and the catch of line 403 then posts 'error'
WorkerSignal ==
  /\ inbox # <<>>
  /\ inbox' = Tail(inbox)
  /\ LET data == Head(inbox) IN
       IF data.sdp # "none"
         THEN /\ remote' = [remote EXCEPT !.sdp = data.sdp]
              /\ UNCHANGED errors
         ELSE IF remote.sdp = "none"
           THEN /\ errors' = [errors EXCEPT !["B"] = Append(@, "Worker error")]
                /\ UNCHANGED remote
           ELSE /\ remote' = [remote EXCEPT !.candidates = Append(@, data.candidate)]
                /\ UNCHANGED errors
  /\ UNCHANGED <<pendingCandidates, remoteDescriptionSet, fed, ended, cancels, destroys>>
  /\ UNCHANGED senderVars
  /\ UNCHANGED receiverVars
  /\ UNCHANGED <<currentTransfer, progress, chan>>
  /\ UNCHANGED workerVars
  /\ UNCHANGED viewVars
  /\ UNCHANGED queueVars

----------------------------------------------------------------------------
(* The worker's negotiation: webrtc.worker and NativeWebRTCWorker *)

\* bound: ICE candidates one peer connection gathers for a description
MaxCandidates == 1

\* bound: signal() calls made on one NativeWebRTCWorker
MaxSignals == 2

\* a property that is absent from a blob
Undefined == [is |-> "undefined", type |-> "undefined"]

\* the sdp property of peerConnection.localDescription: the SDP text
SdpString == [is |-> "string", type |-> "undefined"]

\* an sdp property that is itself a session description {type, sdp}
SdpInit(type) == [is |-> "object", type |-> type]

\* peerConnection.localDescription, what 'signal-complete' carries and
\* handleWorkerMessage hands to onSignal as it is: {type, sdp: string}
LocalDescriptionBlob(type) == [type |-> type, sdp |-> SdpString, candidate |-> 0]

\* the blob {sdp: description}: the description under the sdp property
WrappedBlob(type) == [type |-> "undefined", sdp |-> SdpInit(type), candidate |-> 0]

\* {candidate: event.candidate.toJSON()}, candidate number n of a gathering
IceBlob(n) == [type |-> "undefined", sdp |-> Undefined, candidate |-> n]

IsDescription(blob) == blob.type \in {"offer", "answer"}

\* the messages NativeWebRTCWorker posts to its worker
InitMessage(isInitiator) ==
  [type |-> "init", isInitiator |-> isInitiator, data |-> IceBlob(0)]

SignalMessage(blob) == [type |-> "signal", isInitiator |-> FALSE, data |-> blob]

\* the worker's module state before 'init': peerConnection is null.
\* signalled counts the signal() calls made on the NativeWebRTCWorker.
NoPeerConnection ==
  [pc |-> FALSE, initiator |-> FALSE, local |-> "none", remote |-> "none",
   gathering |-> "new", gathered |-> 0, added |-> 0, signalled |-> 0]

OtherPeer(p) == IF p = "A" THEN "B" ELSE "A"

\* the blobs peer p's onSignal observer has been given
Emitted(p) == {signals[p][i] : i \in 1..Len(signals[p])}

\* setLocalDescription(description): the description becomes the local one
\* and the peer connection starts gathering candidates for it
SetLocalDescription(w, type) ==
  [w EXCEPT !.local = type, !.gathering = "gathering", !.gathered = 0]

\* createOffer(): createOffer then setLocalDescription(offer)
CreateOffer(w) == SetLocalDescription(w, "offer")

\* initializePeerConnection(isInitiator): the initiator creates the data
\* channel and its offer, the receiver waits
InitializePeerConnection(w, isInitiator) ==
  IF isInitiator
    THEN CreateOffer([w EXCEPT !.pc = TRUE, !.initiator = TRUE])
    ELSE [w EXCEPT !.pc = TRUE, !.initiator = FALSE]

\* the signaling state in which the peer connection takes a remote
\* description: an offer when it has no pending local offer, an answer when
\* its own offer is pending
AcceptsRemote(w, type) ==
  IF type = "offer"
    THEN w.local # "offer"
    ELSE type = "answer" /\ w.local = "offer" /\ w.remote = "none"

\* an answer is created for any remote description
AnswersToAny(type) == type \in {"offer", "answer"}

\* line 368: if (data.sdp.type === 'offer')
AnswersTo(type) == type = "offer"

\* the worker posts 'error' and NativeWebRTCWorker gives it to onError
WorkerError(p) == errors' = [errors EXCEPT ![p] = Append(@, "Worker error")]

\* what no action of the negotiation changes
NegotiationFrame ==
  /\ UNCHANGED <<currentTransfer, progress, chan, ended, cancels, destroys>>
  /\ UNCHANGED workerSendVars
  /\ UNCHANGED senderVars
  /\ UNCHANGED receiverVars
  /\ UNCHANGED signalVars
  /\ UNCHANGED viewVars
  /\ UNCHANGED queueVars

\* the worker handles 'init'
WorkerInit(p) ==
  /\ wbox[p] # <<>>
  /\ Head(wbox[p]).type = "init"
  /\ wbox' = [wbox EXCEPT ![p] = Tail(@)]
  /\ worker' = [worker EXCEPT
                  ![p] = InitializePeerConnection(@, Head(wbox[p]).isInitiator)]
  /\ UNCHANGED <<signals, errors>>
  /\ NegotiationFrame

\* the worker handles 'signal': a truthy data.sdp goes to
\* new SessionDescription(data.sdp) and setRemoteDescription, which take a
\* session description and throw for the SDP text or in the wrong signaling
\* state; an offer is then answered.  Otherwise a truthy data.candidate goes
\* to addIceCandidate, which rejects while there is no remote description.
\* Whatever is thrown is caught at line 403 and posted as 'error'.
WorkerOnSignal(p) ==
  /\ wbox[p] # <<>>
  /\ Head(wbox[p]).type = "signal"
  /\ wbox' = [wbox EXCEPT ![p] = Tail(@)]
  /\ LET data == Head(wbox[p]).data
         w == worker[p]
     IN  IF ~w.pc
           THEN UNCHANGED <<worker, errors>>
         ELSE IF data.sdp.is # "undefined"
           THEN IF data.sdp.is = "object" /\ AcceptsRemote(w, data.sdp.type)
                  THEN /\ worker' =
                            [worker EXCEPT ![p] =
                               IF AnswersTo(data.sdp.type)
                                 THEN SetLocalDescription(
                                        [w EXCEPT !.remote = data.sdp.type], "answer")
                                 ELSE [w EXCEPT !.remote = data.sdp.type]]
                       /\ UNCHANGED errors
                  ELSE /\ WorkerError(p)
                       /\ UNCHANGED worker
         ELSE IF data.candidate # 0
           THEN IF w.remote = "none"
                  THEN /\ WorkerError(p)
                       /\ UNCHANGED worker
                  ELSE /\ worker' = [worker EXCEPT ![p].added = @ + 1]
                       /\ UNCHANGED errors
         ELSE UNCHANGED <<worker, errors>>
  /\ UNCHANGED signals
  /\ NegotiationFrame

\* onicecandidate with a candidate: 'candidate' is posted and
\* handleWorkerMessage gives {candidate} to onSignal
OnIceCandidate(p) ==
  /\ worker[p].gathering = "gathering"
  /\ worker[p].gathered < MaxCandidates
  /\ worker' = [worker EXCEPT ![p].gathered = @ + 1]
  /\ signals' = [signals EXCEPT ![p] = Append(@, IceBlob(worker[p].gathered + 1))]
  /\ UNCHANGED <<wbox, errors>>
  /\ NegotiationFrame

\* onicecandidate with a null candidate: gathering is over, 'signal-complete'
\* carries localDescription and handleWorkerMessage gives it to onSignal
OnIceComplete(p) ==
  /\ worker[p].gathering = "gathering"
  /\ worker' = [worker EXCEPT ![p].gathering = "complete"]
  /\ signals' = [signals EXCEPT ![p] = Append(@, LocalDescriptionBlob(worker[p].local))]
  /\ UNCHANGED <<wbox, errors>>
  /\ NegotiationFrame

\* NativeWebRTCWorker.signal(signalData) on peer p, lines 127-147: the blob
\* is posted to the worker; pendingCandidates is never added to, so the
\* loop of lines 139-145 posts nothing more
WorkerSignalCall(p, blob) ==
  /\ worker[p].signalled < MaxSignals
  /\ worker' = [worker EXCEPT ![p].signalled = @ + 1]
  /\ wbox' = [wbox EXCEPT ![p] = Append(@, SignalMessage(blob))]
  /\ UNCHANGED <<signals, errors>>
  /\ NegotiationFrame

\* what the user of peer p can paste: a blob the other peer's onSignal
\* gave, as it is, or a description it gave put under an sdp property
Pastable(p) ==
  Emitted(OtherPeer(p))
    \cup {WrappedBlob(b.type) : b \in {e \in Emitted(OtherPeer(p)) : IsDescription(e)}}

----------------------------------------------------------------------------
(* TransferView: the connection setup *)

\* bound: initializeConnection calls
MaxSessions == 2

\* bound: connectToPeer calls
MaxConnects == 2

\* showMessage(type, text)
Message(type, text) == [type |-> type, text |-> text]

\* what the user types into the peer connection data field: nothing, text
\* that is not JSON, the JSON texts null and {}, and the JSON text of an
\* offer or of an answer
Texts == {"", "notJson", "null", "{}", "offer", "answer"}

\* JSON.parse(peerSignal) returns
IsJson(text) == text \in {"null", "{}", "offer", "answer"}

\* new WebRTCFileTransfer(isInitiator): its peer, whether the peer has given
\* its local description, and the remote description the peer was given
NewSession(isInitiator) ==
  [initiator |-> isInitiator, peer |-> "open", signalled |-> FALSE,
   remote |-> "none"]

\* the peer takes the blob: the initiator an answer to the offer it gave,
\* the receiver an offer, once
PeerAccepts(s, blob) ==
  /\ s.peer = "open"
  /\ s.remote = "none"
  /\ IF s.initiator THEN blob = "answer" /\ s.signalled ELSE blob = "offer"

\* what the peer does with a blob it does not take: signal() throws, or the
\* peer is destroyed with an 'error' event; a peer that ended throws
RejectOutcomes(s) ==
  IF s.peer = "open" THEN {"throws", "destroys"} ELSE {"throws"}

\* the Create Connection and Join Connection buttons are enabled
StartEnabled == connectionState = "disconnected"

\* the Connect to Peer button is enabled
ConnectEnabled == connectionState # "connected" /\ peerSignal # ""

\* what no action of the view changes
ViewFrame ==
  /\ UNCHANGED <<currentTransfer, progress, chan, ended, errors, cancels, destroys>>
  /\ UNCHANGED senderVars
  /\ UNCHANGED receiverVars
  /\ UNCHANGED signalVars
  /\ UNCHANGED workerVars
  /\ UNCHANGED queueVars

\* initializeConnection(isInitiator), lines 593-654: the session there is
\* gets destroyed, a new one takes its place; the receiver waits for the offer
InitializeConnection(isInitiator) ==
  /\ StartEnabled
  /\ calls.start < MaxSessions
  /\ calls' = [calls EXCEPT !.start = @ + 1]
  /\ sessions' =
       Append(IF webrtcRef # 0
                THEN [sessions EXCEPT ![webrtcRef].peer = "destroyed"]
                ELSE sessions,
              NewSession(isInitiator))
  /\ webrtcRef' = Len(sessions) + 1
  /\ IF isInitiator
       THEN UNCHANGED <<connectionState, messages>>
       ELSE /\ connectionState' = "waiting"
            /\ messages' = Append(messages, Message("info", "Paste the sender's offer"))
  /\ UNCHANGED peerSignal
  /\ ViewFrame

\* the peer of session i gives its local description (trickle: false, one
\* blob): the initiator its offer, the receiver its answer to the offer
OnSignal(i) ==
  /\ sessions[i].peer = "open"
  /\ ~sessions[i].signalled
  /\ sessions[i].initiator \/ sessions[i].remote = "offer"
  /\ sessions' = [sessions EXCEPT ![i].signalled = TRUE]
  /\ connectionState' = "waiting"
  /\ messages' = Append(messages,
                        IF sessions[i].initiator
                          THEN Message("info", "Copy your connection data")
                          ELSE Message("success", "Answer generated"))
  /\ UNCHANGED <<webrtcRef, peerSignal, calls>>
  /\ ViewFrame

\* 'connect' on the peer of session i, once both descriptions are set
OnConnect(i) ==
  /\ sessions[i].peer = "open"
  /\ sessions[i].signalled
  /\ sessions[i].remote # "none"
  /\ sessions' = [sessions EXCEPT ![i].peer = "connected"]
  /\ connectionState' = "connected"
  /\ messages' = Append(messages, Message("success", "Connected to peer!"))
  /\ UNCHANGED <<webrtcRef, peerSignal, calls>>
  /\ ViewFrame

\* 'close' on the peer of session i: the connection is lost.  The handler
\* tests the connectionState of the render in which initializeConnection
\* ran, which is 'disconnected', so it shows nothing.
OnClose(i) ==
  /\ sessions[i].peer \in {"open", "connected"}
  /\ sessions' = [sessions EXCEPT ![i].peer = "closed"]
  /\ connectionState' = "disconnected"
  /\ UNCHANGED <<webrtcRef, peerSignal, calls, messages>>
  /\ ViewFrame

\* the user edits the peer connection data field
SetPeerSignal(text) ==
  /\ text # peerSignal
  /\ peerSignal' = text
  /\ UNCHANGED <<webrtcRef, sessions, connectionState, messages, calls>>
  /\ ViewFrame

\* connectToPeer, lines 656-676, with WebRTCFileTransfer.signal, part_010
\* lines 108-120.  JSON.parse throws for text that is not JSON and
\* signalData.type throws for null, both into the catch of connectToPeer.
\* What peer.signal throws is caught in signal() and given to onError, and
\* connectToPeer goes on to show 'Processing connection data...'.
ConnectToPeer ==
  /\ ConnectEnabled
  /\ calls.connect < MaxConnects
  /\ calls' = [calls EXCEPT !.connect = @ + 1]
  /\ IF webrtcRef = 0
       THEN /\ messages' = Append(messages,
                 Message("error", "Please create or join a connection first"))
            /\ UNCHANGED <<sessions, connectionState>>
     ELSE IF ~IsJson(peerSignal) \/ peerSignal = "null"
       THEN /\ messages' = Append(messages,
                 Message("error", "Invalid connection data"))
            /\ UNCHANGED <<sessions, connectionState>>
     ELSE IF PeerAccepts(sessions[webrtcRef], peerSignal)
       THEN /\ sessions' = [sessions EXCEPT ![webrtcRef].remote = peerSignal]
            /\ messages' = Append(messages,
                 Message("info", "Processing connection data..."))
            /\ UNCHANGED connectionState
     ELSE \E outcome \in RejectOutcomes(sessions[webrtcRef]) :
            IF outcome = "throws"
              THEN /\ messages' = messages
                        \o <<Message("error", "Signal error"),
                             Message("info", "Processing connection data...")>>
                   /\ UNCHANGED <<sessions, connectionState>>
              ELSE /\ messages' = messages
                        \o <<Message("info", "Processing connection data..."),
                             Message("error", "peer error")>>
                   /\ sessions' = [sessions EXCEPT ![webrtcRef].peer = "closed"]
                   /\ connectionState' = "disconnected"
  /\ UNCHANGED <<webrtcRef, peerSignal>>
  /\ ViewFrame

----------------------------------------------------------------------------
(* The persisted transfer queue: db.ts, table transfer_queue *)

\* bound: calls made on the transfer queue
MaxQueueOps == 4

\* bound: the values new Date() takes
MaxClock == 1

\* the file paths that are queued: the file of sendFile call t is t
Paths == Tasks

\* a row of transfer_queue
Row(id, filePath, addedAt) == [id |-> id, filePath |-> filePath, addedAt |-> addedAt]

\* the rows WHERE filePath = ?
RowsOf(path) == SelectSeq(transfer_queue, LAMBDA r : r.filePath = path)

\* the table after DELETE FROM transfer_queue WHERE filePath = ?
Deleted(path) == SelectSeq(transfer_queue, LAMBDA r : r.filePath # path)

\* getTransferQueue(): SELECT * FROM transfer_queue ORDER BY addedAt ASC.
\* The rows come in the order of addedAt; rows added within one millisecond
\* come in any order.
GetTransferQueue ==
  {q \in [1..Len(transfer_queue) -> {transfer_queue[i] : i \in 1..Len(transfer_queue)}] :
     /\ \A i, j \in 1..Len(transfer_queue) : i # j => q[i] # q[j]
     /\ \A i, j \in 1..Len(transfer_queue) : i < j => q[i].addedAt <= q[j].addedAt}

\* what no call on the queue changes
QueueFrame ==
  /\ UNCHANGED <<currentTransfer, progress, chan, ended, errors, cancels, destroys>>
  /\ UNCHANGED senderVars
  /\ UNCHANGED receiverVars
  /\ UNCHANGED signalVars
  /\ UNCHANGED workerVars
  /\ UNCHANGED viewVars
  /\ UNCHANGED viewSend

\* addToTransferQueue without the check for a row that is there
AddToTransferQueueUnchecked(filePath) ==
  /\ queueOp.n < MaxQueueOps
  /\ transfer_queue' = Append(transfer_queue, Row(seq + 1, filePath, clock))
  /\ seq' = seq + 1
  /\ queueOp' = [op |-> "add", path |-> filePath, result |-> seq + 1,
                 n |-> queueOp.n + 1]
  /\ UNCHANGED clock
  /\ QueueFrame

\* addToTransferQueue(filePath), lines 113-130: the row of filePath if there
\* is one, else a new row with the next id and the time of the call
AddToTransferQueue(filePath) ==
  /\ queueOp.n < MaxQueueOps
  /\ IF RowsOf(filePath) # <<>>
       THEN /\ queueOp' = [op |-> "add", path |-> filePath,
                           result |-> RowsOf(filePath)[1].id, n |-> queueOp.n + 1]
            /\ UNCHANGED <<transfer_queue, seq>>
       ELSE /\ transfer_queue' = Append(transfer_queue, Row(seq + 1, filePath, clock))
            /\ seq' = seq + 1
            /\ queueOp' = [op |-> "add", path |-> filePath, result |-> seq + 1,
                           n |-> queueOp.n + 1]
  /\ UNCHANGED clock
  /\ QueueFrame

\* removeFromTransferQueue(filePath), lines 132-135
RemoveFromTransferQueue(filePath) ==
  /\ queueOp.n < MaxQueueOps
  /\ transfer_queue' = Deleted(filePath)
  /\ queueOp' = [op |-> "remove", path |-> filePath, result |-> 0,
                 n |-> queueOp.n + 1]
  /\ UNCHANGED <<seq, clock>>
  /\ QueueFrame

\* clearTransferQueue(), lines 137-140
ClearTransferQueue ==
  /\ queueOp.n < MaxQueueOps
  /\ transfer_queue' = <<>>
  /\ queueOp' = [op |-> "clear", path |-> 0, result |-> 0, n |-> queueOp.n + 1]
  /\ UNCHANGED <<seq, clock>>
  /\ QueueFrame

\* time passes between two calls
Tick ==
  /\ clock < MaxClock
  /\ clock' = clock + 1
  /\ UNCHANGED <<transfer_queue, seq, queueOp>>
  /\ QueueFrame

------------------------------------------------------------\* what TransferView.sendFile leaves alone
ViewSendFrame ==
  /\ UNCHANGED <<currentTransfer, progress, chan, ended, errors, cancels, destroys>>
  /\ UNCHANGED senderVars
  /\ UNCHANGED receiverVars
  /\ UNCHANGED signalVars
  /\ UNCHANGED workerVars
  /\ UNCHANGED <<webrtcRef, sessions, connectionState, peerSignal, calls>>
  /\ UNCHANGED <<seq, clock>>

\* TransferView.sendFile while !isConnectedRef.current, lines 702-705: it
\* shows 'Not connected to peer' and returns
ViewSendRefused(t) ==
  /\ t = nSends + 1
  /\ t <= MaxSends
  /\ ~connected
  /\ viewSend[t] = "none"
  /\ viewSend' = [viewSend EXCEPT ![t] = "refused"]
  /\ messages' = Append(messages, Message("error", "Not connected to peer"))
  /\ UNCHANGED <<transfer_queue, queueOp>>
  /\ ViewSendFrame

\* TransferView.sendFile up to the call of webrtcRef.current.sendFile, lines
\* 694-709.  viaQueue: the Send button of a row of the queue list called
\* sendFile(filePath), line 929; otherwise the Send button of the selected
\* file called sendFile(), line 974.
ViewSendFile(t, viaQueue) ==
  /\ t = nSends + 1
  /\ t <= MaxSends
  /\ connected
  /\ viewSend[t] \in {"none", "refused"}
  /\ viaQueue => RowsOf(t) # <<>>
  /\ viewSend' = [viewSend EXCEPT ![t] = IF viaQueue THEN "queue" ELSE "selected"]
  /\ UNCHANGED <<transfer_queue, queueOp, messages>>
  /\ ViewSendFrame

\* the call of webrtcRef.current.sendFile has returned or thrown
Settled(t) == send[t].pc \in {"done", "failed", "notConnected"}

\* ViewSendReturn with the removal made whatever the outcome of the call
ViewSendReturnAlways(t) ==
  /\ viewSend[t] \in {"queue", "selected"}
  /\ Settled(t)
  /\ viewSend' = [viewSend EXCEPT ![t] = "returned"]
  /\ IF viewSend[t] = "queue"
       THEN /\ transfer_queue' = Deleted(t)
            /\ queueOp' = [queueOp EXCEPT !.op = "remove", !.path = t, !.result = 0]
       ELSE UNCHANGED <<transfer_queue, queueOp>>
  /\ IF send[t].pc = "done"
       THEN UNCHANGED messages
       ELSE messages' = Append(messages, Message("error", "Failed to send file"))
  /\ ViewSendFrame

\* TransferView.sendFile after await webrtcRef.current.sendFile, lines
\* 709-717: when the call returned and sendFile was given a filePath of the
\* queue it removes the file from the queue (removeFromQueue, lines
\* 565-572); when the call threw, the catch block shows the error
ViewSendReturn(t) ==
  /\ viewSend[t] \in {"queue", "selected"}
  /\ Settled(t)
  /\ viewSend' = [viewSend EXCEPT ![t] = "returned"]
  /\ IF send[t].pc = "done"
       THEN /\ IF viewSend[t] = "queue"
                 THEN /\ transfer_queue' = Deleted(t)
                      /\ queueOp' = [queueOp EXCEPT !.op = "remove", !.path = t,
                                                    !.result = 0]
                 ELSE UNCHANGED <<transfer_queue, queueOp>>
            /\ UNCHANGED messages
       ELSE /\ messages' = Append(messages, Message("error", "Failed to send file"))
            /\ UNCHANGED <<transfer_queue, queueOp>>
  /\ ViewSendFrame


----------------------------------------------------------------------------
(* Sending on the worker backend: NativeWebRTCWorker.sendFile and           *)
(* cancelTransfer on peer A (part_011) and the 'send-chunk' and 'cancel'    *)
(* cases of its worker (part_009).  The frames carry transfer id 1.         *)

\* bound: chunks of the file NativeWebRTCWorker.sendFile sends
MaxWorkerChunks == 2

\* postMessage({type: 'send-chunk', data: {fileName, fileSize, offset, chunk}})
SendChunkMessage(fileSize, offset, len) ==
  [type |-> "send-chunk", isInitiator |-> FALSE,
   data |-> [fileSize |-> fileSize, offset |-> offset, len |-> len]]

\* postMessage({type: 'cancel'})
CancelMessage == [type |-> "cancel", isInitiator |-> FALSE, data |-> IceBlob(0)]

\* what no step of a send on the worker backend changes
WorkerSendFrame ==
  /\ UNCHANGED <<currentTransfer, chan, ended, destroys>>
  /\ UNCHANGED senderVars
  /\ UNCHANGED receiverVars
  /\ UNCHANGED signalVars
  /\ UNCHANGED <<worker, signals>>
  /\ UNCHANGED viewVars
  /\ UNCHANGED queueVars

\* the head of for (offset = 0; offset < fileSize; offset += CHUNK_SIZE),
\* line 157: another turn awaits readFileChunk, else the call returns
WorkerSendLoop(rec, off) ==
  workerSend' = [rec EXCEPT !.offset = off,
                            !.pc = IF off < rec.fileSize THEN "readFileChunk"
                                                         ELSE "done"]

\* NativeWebRTCWorker.sendFile(filePath) up to await getFileInfo, lines
\* 149-152; size is the length of the file
WorkerSendFile(size) ==
  /\ workerSend.pc = "idle"
  /\ workerSend' = [workerSend EXCEPT !.pc = "getFileInfo", !.fileSize = size]
  /\ UNCHANGED <<wbox, dataChannelOpen, dataChannelSent, completeTimers,
                 progress, errors, cancels>>
  /\ WorkerSendFrame

\* getFileInfo resolves: lines 152-157
WorkerGetFileInfoReturn ==
  /\ workerSend.pc = "getFileInfo"
  /\ WorkerSendLoop(workerSend, 0)
  /\ UNCHANGED <<wbox, dataChannelOpen, dataChannelSent, completeTimers,
                 progress, errors, cancels>>
  /\ WorkerSendFrame

\* readFileChunk resolves: the chunk is posted as 'send-chunk', lines 158-171
WorkerReadFileChunkReturn ==
  /\ workerSend.pc = "readFileChunk"
  /\ wbox' = [wbox EXCEPT !["A"] =
                Append(@, SendChunkMessage(workerSend.fileSize, workerSend.offset,
                                           Min(CHUNK_SIZE,
                                               workerSend.fileSize - workerSend.offset)))]
  /\ workerSend' = [workerSend EXCEPT !.pc = "delay"]
  /\ UNCHANGED <<dataChannelOpen, dataChannelSent, completeTimers,
                 progress, errors, cancels>>
  /\ WorkerSendFrame

\* the 5 ms delay of line 173 is over: the next turn of the loop
WorkerDelayReturn ==
  /\ workerSend.pc = "delay"
  /\ WorkerSendLoop(workerSend, workerSend.offset + CHUNK_SIZE)
  /\ UNCHANGED <<wbox, dataChannelOpen, dataChannelSent, completeTimers,
                 progress, errors, cancels>>
  /\ WorkerSendFrame

\* NativeWebRTCWorker.cancelTransfer(), lines 180-182
WorkerCancelTransfer ==
  /\ cancels["A"] < MaxCancels
  /\ cancels' = [cancels EXCEPT !["A"] = @ + 1]
  /\ wbox' = [wbox EXCEPT !["A"] = Append(@, CancelMessage)]
  /\ UNCHANGED <<workerSend, dataChannelOpen, dataChannelSent, completeTimers,
                 progress, errors>>
  /\ WorkerSendFrame

\* the worker handles 'send-chunk': sendFile(fileName, fileSize, offset,
\* chunk), part_009 lines 282-336.  On a channel that is not open it posts
\* 'error'; else it sends the metadata frame before the chunk at offset 0,
\* the chunk, posts 'progress', and after the chunk that reaches fileSize it
\* sets the timer that sends 'complete' 100 ms later.
WorkerOnSendChunk ==
  /\ wbox["A"] # <<>>
  /\ Head(wbox["A"]).type = "send-chunk"
  /\ wbox' = [wbox EXCEPT !["A"] = Tail(@)]
  /\ LET data == Head(wbox["A"]).data
         bytes == data.offset + data.len
         pct == Percentage(bytes, data.fileSize)
     IN  IF ~dataChannelOpen
           THEN /\ WorkerError("A")
                /\ UNCHANGED <<dataChannelSent, completeTimers, progress>>
           ELSE /\ dataChannelSent' =
                     dataChannelSent
                       \o (IF data.offset = 0
                             THEN <<MetadataFrame(1, 1, data.fileSize)>>
                             ELSE <<>>)
                       \o <<ChunkFrame(1, data.offset, data.len, "none")>>
                /\ progress' = [progress EXCEPT !["A"] =
                                  Append(@, Progress(1, data.fileSize, bytes,
                                                     pct.num, pct.den, "transferring"))]
                /\ completeTimers' = IF bytes >= data.fileSize
                                       THEN completeTimers + 1
                                       ELSE completeTimers
                /\ UNCHANGED errors
  /\ UNCHANGED <<workerSend, dataChannelOpen, cancels>>
  /\ WorkerSendFrame

\* the timer of lines 319-329 fires: 'complete' is sent and the 'completed'
\* progress posted; dataChannel.send throws on a channel that is not open
\* and nothing catches it
CompleteTimeout ==
  /\ completeTimers > 0
  /\ completeTimers' = completeTimers - 1
  /\ IF dataChannelOpen
       THEN /\ dataChannelSent' = Append(dataChannelSent, CompleteFrame(1))
            /\ progress' = [progress EXCEPT !["A"] =
                              Append(@, Progress(1, workerSend.fileSize,
                                                 workerSend.fileSize, 100, 1,
                                                 "completed"))]
       ELSE UNCHANGED <<dataChannelSent, progress>>
  /\ UNCHANGED <<workerSend, wbox, dataChannelOpen, errors, cancels>>
  /\ WorkerSendFrame

\* the worker handles 'cancel': cancelTransfer(), part_009 lines 339-346
WorkerOnCancel ==
  /\ wbox["A"] # <<>>
  /\ Head(wbox["A"]).type = "cancel"
  /\ wbox' = [wbox EXCEPT !["A"] = Tail(@)]
  /\ dataChannelSent' = IF dataChannelOpen
                          THEN Append(dataChannelSent, CancelFrame(1))
                          ELSE dataChannelSent
  /\ UNCHANGED <<workerSend, dataChannelOpen, completeTimers, progress,
                 errors, cancels>>
  /\ WorkerSendFrame

\* the data channel closes: 'data-channel-close' is posted, part_009 138-141
DataChannelClose ==
  /\ dataChannelOpen
  /\ dataChannelOpen' = FALSE
  /\ UNCHANGED <<workerSend, wbox, dataChannelSent, completeTimers, progress,
                 errors, cancels>>
  /\ WorkerSendFrame

----------------
(* Specifications *)

Peers == {"A", "B"}

\* the worker's peer connection before any signal: no remote description, no
\* candidate added
NoRemote == [sdp |-> "none", candidates |-> <<>>]

\* no NativeWebRTCWorker.sendFile call made yet
IdleWorkerSend == [pc |-> "idle", fileSize |-> 0, offset |-> 0]

\* the workers after new NativeWebRTCWorker(isInitiator) on both sides, A the
\* initiator: the constructor has posted 'init'
InitWorker ==
  /\ worker = [p \in Peers |-> NoPeerConnection]
  /\ wbox = [p \in Peers |-> <<InitMessage(p = "A")>>]
  /\ signals = [p \in Peers |-> <<>>]
  /\ workerSend = IdleWorkerSend
  /\ dataChannelOpen = FALSE
  /\ dataChannelSent = <<>>
  /\ completeTimers = 0

\* no call made on the transfer queue yet
NoOp == [op |-> "none", path |-> 0, result |-> 0, n |-> 0]

\* the database when it is created: CREATE TABLE transfer_queue, no row
InitQueue ==
  /\ transfer_queue = <<>>
  /\ seq = 0
  /\ clock = 0
  /\ queueOp = NoOp
  /\ viewSend = [t \in Tasks |-> "none"]

\* TransferView when it mounts: no session, nothing shown
InitView ==
  /\ webrtcRef = 0
  /\ sessions = <<>>
  /\ connectionState = "disconnected"
  /\ messages = <<>>
  /\ peerSignal = ""
  /\ calls = [start |-> 0, connect |-> 0]

\* both peers, the transfer queue and the view after construction, an empty
\* downloads directory
InitPeers ==
  /\ connected = FALSE
  /\ transferCancelled = FALSE
  /\ currentTransfer = [p \in Peers |-> NoTransfer]
  /\ progress = [p \in Peers |-> <<>>]
  /\ send = [t \in Tasks |-> IdleSend]
  /\ nSends = 0
  /\ srcLen = [t \in Tasks |-> 0]
  /\ bufferedAmount = 0
  /\ chan = <<>>
  /\ sent = <<>>
  /\ receivedMetadata = NoMetadata
  /\ receivedBytes = 0
  /\ writeStreamId = 0
  /\ writeStreamPath = NoPath
  /\ handlers = <<>>
  /\ streams = <<>>
  /\ disk = [path \in {} |-> <<>>]
  /\ lastCancel = NoCancel
  /\ cancels = [p \in Peers |-> 0]
  /\ destroys = [p \in Peers |-> 0]
  /\ ended = [p \in Peers |-> "no"]
  /\ errors = [p \in Peers |-> <<>>]
  /\ pendingCandidates = <<>>
  /\ remoteDescriptionSet = FALSE
  /\ inbox = <<>>
  /\ remote = NoRemote
  /\ fed = <<>>
  /\ InitQueue
  /\ InitView

\* the state after both peers and their workers are constructed
Init == InitPeers /\ InitWorker

\* every earlier sendFile call has returned: the caller awaits each call
\* (TransferView.sendFile, lines 707-710) and the user waits for it
Returned == \A t \in Tasks : send[t].pc \in {"idle", "done", "failed"}

\* iterations of the for loop that the sendFile calls made so far amount to
RECURSIVE ChunksAsked(_)
ChunksAsked(t) ==
  IF t = 0 THEN 0
  ELSE ChunksAsked(t - 1)
         + NumChunks(IF send[t].pc = "getFileInfo" THEN srcLen[t]
                     ELSE send[t].fileSize)

\* a file the session's budget of n chunks still allows
Affordable(f, n) == ChunksAsked(nSends) + NumChunks(f.size) <= n

\* a session in which the user sends one file after another
Next ==
  \/ Connect
  \/ \E t \in Tasks, f \in SourceFiles(MaxChunks, {1}) :
       Returned /\ Affordable(f, MaxChunks) /\ SendFile(t, f)
  \/ \E t \in Tasks : GetFileInfoReturn(t)
  \/ \E t \in Tasks : ReadFileChunkReturn(t)
  \/ \E t \in Tasks : YieldReturn(t)
  \/ CancelTransferA
  \/ Deliver
  \/ \E i \in 1..Len(handlers) : ResumeMetadata(i)
  \/ \E i \in 1..Len(handlers) : ResumeChunk(i)
  \/ \E i \in 1..Len(handlers) : ResumeComplete(i)
  \/ \E i \in 1..Len(handlers) : ResumeCancel(i)
  \/ CancelTransferB
  \/ \E i \in 1..Len(handlers) : ResumeCancelTransfer(i)

Spec == Init /\ [][Next]_vars

\* bufferedAmount as the transport may report it: empty, at the mark, above it
BufferedAmounts == {0, HighWaterMark, HighWaterMark + 1}

\* lengths a source file may be cut to: nothing, part of its first chunk, part
\* of its second
ShrunkSizes == {0, 1, CHUNK_SIZE + 1}

\* peer A alone, sending files one after another: the files may shrink while
\* they are read, and the transport's queue fills and drains
NextSender ==
  \/ Connect
  \/ \E t \in 1..MaxSenderSends, f \in SourceFiles(MaxSendChunks, {3392}) :
       Returned /\ Affordable(f, MaxSendChunks) /\ SendFile(t, f)
  \/ \E t \in Tasks : GetFileInfoReturn(t)
  \/ \E t \in Tasks : ReadFileChunkReturn(t)
  \/ \E t \in Tasks : BackpressureReturn(t)
  \/ \E t \in Tasks : YieldReturn(t)
  \/ CancelTransferA
  \/ \E t \in Tasks, n \in ShrunkSizes : ShrinkFile(t, n)
  \/ \E b \in BufferedAmounts : SetBufferedAmount(b)

SpecSender == Init /\ [][NextSender]_vars

\* peer A sending files whose size does not change, the transport's queue
\* filling and draining; the timer of the backpressure loop (setTimeout of
\* 10 ms, line 168) fires as timers do
NextBackpressure ==
  \/ Connect
  \/ \E t \in 1..MaxSenderSends, f \in SourceFiles(MaxSendChunks, {3392}) :
       Returned /\ Affordable(f, MaxSendChunks) /\ SendFile(t, f)
  \/ \E t \in Tasks : GetFileInfoReturn(t)
  \/ \E t \in Tasks : ReadFileChunkReturn(t)
  \/ \E t \in Tasks : BackpressureReturn(t)
  \/ \E t \in Tasks : YieldReturn(t)
  \/ CancelTransferA
  \/ \E b \in BufferedAmounts : SetBufferedAmount(b)

SpecBackpressure ==
  /\ Init
  /\ [][NextBackpressure]_vars
  /\ WF_vars(\E t \in Tasks : BackpressureReturn(t))

\* the same sender where every await of the loop returns in the end: the
\* IPC replies arrive and the timers fire; the transport alone decides what
\* bufferedAmount is
SpecCancelFair ==
  /\ Init
  /\ [][NextBackpressure]_vars
  /\ WF_vars(\E t \in Tasks : GetFileInfoReturn(t))
  /\ WF_vars(\E t \in Tasks : ReadFileChunkReturn(t))
  /\ WF_vars(\E t \in Tasks : BackpressureReturn(t))
  /\ WF_vars(\E t \in Tasks : YieldReturn(t))

\* the Send buttons of TransferView are enabled: the last progress update
\* shown is not 'transferring' (TransferView.tsx lines 930, 975)
SendEnabled ==
  IF progress["A"] = <<>> THEN TRUE
  ELSE progress["A"][Len(progress["A"])].status # "transferring"

\* peer A's session from construction to destroy(): the user sends files
\* whenever the Send button is enabled, the transport may fail or close at
\* any moment, and sendFile may be called on a peer that is not connected
NextSession ==
  \/ Connect
  \/ \E t \in Tasks, f \in SourceFiles(MaxChunks, {1}) :
       SendEnabled /\ Affordable(f, MaxChunks) /\ SendFile(t, f)
  \/ \E t \in Tasks : SendFileNotConnected(t)
  \/ \E t \in Tasks : GetFileInfoReturn(t)
  \/ \E t \in Tasks : ReadFileChunkReturn(t)
  \/ \E t \in Tasks : YieldReturn(t)
  \/ \E t \in Tasks : GetFileInfoReturnClosed(t)
  \/ \E t \in Tasks : ReadFileChunkReturnClosed(t)
  \/ \E t \in Tasks : YieldReturnClosed(t)
  \/ CancelTransferA
  \/ PeerError("A")
  \/ Close("A")
  \/ DestroyA

SpecSession == Init /\ [][NextSession]_vars

\* the same session with a caller that awaits each sendFile call before it
\* makes the next one on a connected peer (TransferView.sendFile, lines
\* 707-710); calls on a peer that is not connected come at any time
NextLifecycle ==
  \/ Connect
  \/ \E t \in Tasks, f \in SourceFiles(MaxChunks, {1}) :
       Returned /\ Affordable(f, MaxChunks) /\ SendFile(t, f)
  \/ \E t \in Tasks : SendFileNotConnected(t)
  \/ \E t \in Tasks : GetFileInfoReturn(t)
  \/ \E t \in Tasks : ReadFileChunkReturn(t)
  \/ \E t \in Tasks : YieldReturn(t)
  \/ \E t \in Tasks : GetFileInfoReturnClosed(t)
  \/ \E t \in Tasks : ReadFileChunkReturnClosed(t)
  \/ \E t \in Tasks : YieldReturnClosed(t)
  \/ CancelTransferA
  \/ PeerError("A")
  \/ Close("A")
  \/ DestroyA

SpecLifecycle == Init /\ [][NextLifecycle]_vars

\* the frames a remote peer may send as its k-th frame: the metadata of a
\* one-byte file named 1, a one-byte chunk, the two other control messages
PeerFrames(k) ==
  {MetadataFrame(0, 1, 1), ChunkFrame(0, k, 1, "none"), CompleteFrame(0),
   CancelFrame(0)}

\* what the downloads directory may hold before the session
ExistingFiles == SUBSET {<<1, 0>>, <<1, 1>>}

\* peer B connected to a remote peer, some files already in the directory
InitReceiving ==
  /\ connected = TRUE
  /\ transferCancelled = FALSE
  /\ currentTransfer = [p \in Peers |-> NoTransfer]
  /\ progress = [p \in Peers |-> <<>>]
  /\ send = [t \in Tasks |-> IdleSend]
  /\ nSends = 0
  /\ srcLen = [t \in Tasks |-> 0]
  /\ bufferedAmount = 0
  /\ chan = <<>>
  /\ sent = <<>>
  /\ receivedMetadata = NoMetadata
  /\ receivedBytes = 0
  /\ writeStreamId = 0
  /\ writeStreamPath = NoPath
  /\ handlers = <<>>
  /\ streams = <<>>
  /\ disk \in {[path \in S |-> <<>>] : S \in ExistingFiles}
  /\ lastCancel = NoCancel
  /\ cancels = [p \in Peers |-> 0]
  /\ destroys = [p \in Peers |-> 0]
  /\ ended = [p \in Peers |-> "no"]
  /\ errors = [p \in Peers |-> <<>>]
  /\ pendingCandidates = <<>>
  /\ remoteDescriptionSet = FALSE
  /\ inbox = <<>>
  /\ remote = NoRemote
  /\ fed = <<>>
  /\ InitWorker
  /\ InitQueue

\* the receiving peer in a view that holds no session of its own
InitReceiver == InitReceiving /\ InitView

\* peer B alone, receiving whatever a remote peer sends, until the transport
\* fails or closes
NextReceiver ==
  \/ \E f \in PeerFrames(Len(sent)) : PeerSends(f)
  \/ Deliver
  \/ \E i \in 1..Len(handlers) : ResumeMetadata(i)
  \/ \E i \in 1..Len(handlers) : ResumeChunk(i)
  \/ \E i \in 1..Len(handlers) : ResumeComplete(i)
  \/ \E i \in 1..Len(handlers) : ResumeCancel(i)
  \/ CancelTransferB
  \/ \E i \in 1..Len(handlers) : ResumeCancelTransfer(i)
  \/ PeerError("B")
  \/ Close("B")

SpecReceiver == InitReceiver /\ [][NextReceiver]_vars

\* peer B receiving into an empty directory; its user may cancel and may
\* call destroy() at any moment, also twice
InitTeardown == InitReceiver /\ DOMAIN disk = {}

NextTeardown ==
  \/ \E f \in PeerFrames(Len(sent)) : PeerSends(f)
  \/ Deliver
  \/ \E i \in 1..Len(handlers) : ResumeMetadata(i)
  \/ \E i \in 1..Len(handlers) : ResumeChunk(i)
  \/ \E i \in 1..Len(handlers) : ResumeComplete(i)
  \/ \E i \in 1..Len(handlers) : ResumeCancel(i)
  \/ CancelTransferB
  \/ \E i \in 1..Len(handlers) : ResumeCancelTransfer(i)
  \/ DestroyB

SpecTeardown == InitTeardown /\ [][NextTeardown]_vars

\* the frames of PeerFrames and a metadata message without fileName
FaultyFrames(k) == PeerFrames(k) \cup {MetadataFrame(0, NoName, 1)}

\* peer B receiving into an empty directory from a peer whose metadata may
\* make initWriteStream reject; writeChunk and finalizeWriteStream reject
\* when their stream is gone
NextFaulty ==
  \/ \E f \in FaultyFrames(Len(sent)) : PeerSends(f)
  \/ Deliver
  \/ \E i \in 1..Len(handlers) : ResumeMetadata(i)
  \/ \E i \in 1..Len(handlers) : ResumeChunk(i)
  \/ \E i \in 1..Len(handlers) : ResumeComplete(i)
  \/ \E i \in 1..Len(handlers) : ResumeCancel(i)
  \/ CancelTransferB
  \/ \E i \in 1..Len(handlers) : ResumeCancelTransfer(i)

SpecFaulty == InitTeardown /\ [][NextFaulty]_vars

\* the receiving peer, connected, in the view that holds its session
InitClose ==
  /\ InitReceiving
  /\ DOMAIN disk = {}
  /\ webrtcRef = 1
  /\ sessions = <<[NewSession(FALSE) EXCEPT !.peer = "connected",
                                           !.signalled = TRUE,
                                           !.remote = "offer"]>>
  /\ connectionState = "connected"
  /\ messages = <<>>
  /\ peerSignal = "offer"
  /\ calls = [start |-> 1, connect |-> 1]

\* peer B receiving until its user closes the transfer UI; the user can
\* cancel while the view holds the session
NextClose ==
  \/ \E f \in PeerFrames(Len(sent)) : PeerSends(f)
  \/ Deliver
  \/ \E i \in 1..Len(handlers) : ResumeMetadata(i)
  \/ \E i \in 1..Len(handlers) : ResumeChunk(i)
  \/ \E i \in 1..Len(handlers) : ResumeComplete(i)
  \/ \E i \in 1..Len(handlers) : ResumeCancel(i)
  \/ webrtcRef # 0 /\ CancelTransferB
  \/ \E i \in 1..Len(handlers) : ResumeCancelTransfer(i)
  \/ CloseTransfer

SpecClose == InitClose /\ [][NextClose]_vars

\* the transfer queue under any calls of its four operations
NextQueue ==
  \/ \E filePath \in Paths : AddToTransferQueue(filePath)
  \/ \E filePath \in Paths : RemoveFromTransferQueue(filePath)
  \/ ClearTransferQueue
  \/ Tick

SpecQueue == Init /\ [][NextQueue]_vars

\* bound: chunks the files sent from one TransferView have in all
MaxQueueChunks == 1

\* the files of the queue: whole chunks, the empty file among them
QueueFiles == {[size |-> s, json |-> "none"] : s \in SizesUpTo(MaxQueueChunks, {})}

\* every earlier TransferView.sendFile call has returned
ViewReturned == \A t \in Tasks : viewSend[t] \in {"none", "refused", "returned"}

\* the sending side of one TransferView: its user queues files, then waits for each
\* send to return, sends files from the queue list or as
\* the selected file, cancels, and the transport may close at any moment
NextSendQueue ==
  \/ Connect
  \/ \E filePath \in Paths :
       nSends = 0 /\ RowsOf(filePath) = <<>> /\ AddToTransferQueue(filePath)
  \/ \E t \in Tasks : ViewSendRefused(t)
  \/ \E t \in Tasks, viaQueue \in BOOLEAN :
       ViewReturned /\ ViewSendFile(t, viaQueue)
  \/ \E t \in Tasks, f \in QueueFiles :
       viewSend[t] \in {"queue", "selected"} /\ Affordable(f, MaxQueueChunks)
         /\ SendFile(t, f)
  \/ \E t \in Tasks :
       viewSend[t] \in {"queue", "selected"} /\ SendFileNotConnected(t)
  \/ \E t \in Tasks : GetFileInfoReturn(t)
  \/ \E t \in Tasks : ReadFileChunkReturn(t)
  \/ \E t \in Tasks : YieldReturn(t)
  \/ \E t \in Tasks : GetFileInfoReturnClosed(t)
  \/ \E t \in Tasks : ReadFileChunkReturnClosed(t)
  \/ \E t \in Tasks : YieldReturnClosed(t)
  \/ \E t \in Tasks : ViewSendReturn(t)
  \/ CancelTransferA
  \/ Close("A")

SpecSendQueue == Init /\ [][NextSendQueue]_vars

\* the workers once the negotiation is over and A's data channel is open:
\* A has its offer and B's answer, B the offer and its answer, each onSignal
\* observer got the local description
InitWorkerSend ==
  /\ InitPeers
  /\ worker = [p \in Peers |->
                 [NoPeerConnection EXCEPT
                    !.pc = TRUE, !.initiator = (p = "A"),
                    !.local = IF p = "A" THEN "offer" ELSE "answer",
                    !.remote = IF p = "A" THEN "answer" ELSE "offer",
                    !.gathering = "complete", !.signalled = 1]]
  /\ wbox = [p \in Peers |-> <<>>]
  /\ signals = [p \in Peers |->
                  <<LocalDescriptionBlob(IF p = "A" THEN "offer" ELSE "answer")>>]
  /\ workerSend = IdleWorkerSend
  /\ dataChannelOpen = TRUE
  /\ dataChannelSent = <<>>
  /\ completeTimers = 0

\* one file sent on the worker backend: the user may cancel and the channel
\* may close at any moment
NextWorkerSend ==
  \/ \E size \in SizesUpTo(MaxWorkerChunks, {1}) : WorkerSendFile(size)
  \/ WorkerGetFileInfoReturn
  \/ WorkerReadFileChunkReturn
  \/ WorkerDelayReturn
  \/ WorkerCancelTransfer
  \/ WorkerOnSendChunk
  \/ CompleteTimeout
  \/ WorkerOnCancel
  \/ DataChannelClose

SpecWorkerSend == InitWorkerSend /\ [][NextWorkerSend]_vars

\* the negotiation of two workers, A the initiator: each user pastes what
\* the other side's onSignal gave
NextNegotiation ==
  \/ \E p \in Peers : WorkerInit(p)
  \/ \E p \in Peers : WorkerOnSignal(p)
  \/ \E p \in Peers : OnIceCandidate(p)
  \/ \E p \in Peers : OnIceComplete(p)
  \/ \E p \in Peers : \E blob \in Pastable(p) : WorkerSignalCall(p, blob)

SpecNegotiation == Init /\ [][NextNegotiation]_vars

\* the connection setup of one TransferView: its user and its peers
NextView ==
  \/ \E isInitiator \in BOOLEAN : InitializeConnection(isInitiator)
  \/ \E i \in 1..Len(sessions) : OnSignal(i)
  \/ \E i \in 1..Len(sessions) : OnConnect(i)
  \/ \E i \in 1..Len(sessions) : OnClose(i)
  \/ \E text \in Texts : SetPeerSignal(text)
  \/ ConnectToPeer

SpecView == Init /\ [][NextView]_vars

\* the blobs a user may paste: the remote offer or answer, and its candidates
Blobs == {SdpBlob("offer"), SdpBlob("answer")}
           \cup {CandidateBlob(n) : n \in 1..3}

\* the signaling exchange of one peer: blobs pasted in any order
NextSignal ==
  \/ \E blob \in Blobs : Signal(blob)
  \/ WorkerSignal

SpecSignal == Init /\ [][NextSignal]_vars

----------------------------------------------------------------------------
(* What the claims speak of *)

\* the frames sendFile call t handed to the channel, in order
FramesOf(t) == SelectSeq(sent, LAMBDA f : f.tid = t)

\* its chunk frames
ChunksOf(t) == SelectSeq(sent, LAMBDA f : f.tid = t /\ f.type = "chunk")

\* the payload bytes of the frames fs in all
RECURSIVE TotalLen(_)
TotalLen(fs) == IF fs = <<>> THEN 0 ELSE Head(fs).len + TotalLen(Tail(fs))

\* the updates peer p's observer got that name file name
UpdatesOf(p, name) == SelectSeq(progress[p], LAMBDA u : u.fileName = name)

\* S mod CHUNK_SIZE, or a full chunk when S is a multiple
LastChunkLen(S) == IF S % CHUNK_SIZE = 0 THEN CHUNK_SIZE ELSE S % CHUNK_SIZE

\* the bytes of the file sendFile call t sends
SourceBytes(t) ==
  IF srcLen[t] = 0 THEN <<>> ELSE <<[tid |-> t, off |-> 0, len |-> srcLen[t]]>>

\* the streams whose finalizeWriteStream has resolved
Finished == {id \in 1..Len(streams) : streams[id].st = "finished"}

\* nothing is in flight on B's side: no frame, no suspended handler
Quiet == chan = <<>> /\ handlers = <<>>

\* sendFile call t has sent frames of both types
Sent(t, type) == \E i \in 1..Len(sent) : sent[i].tid = t /\ sent[i].type = type

\* update u reports a percentage of at most 100
AtMost100(u) == u.pctDen > 0 /\ u.pctNum <= 100 * u.pctDen

----------------------------------------------------------------------------
(* Claims *)

\* C3: every sendFile call that has put a frame on the channel has sent its
\* metadata frame first, and has sent no second metadata frame since.
C3_MetadataOnceAndFirst ==
  \A t \in Tasks :
    LET fr == FramesOf(t) IN
    fr # <<>> =>
      /\ fr[1].type = "metadata"
      /\ \A i \in 2..Len(fr) : fr[i].type # "metadata"

\* C3 witness: a call has completed after sending two chunk frames or more.
C3_Witness ==
  \E t \in Tasks : send[t].pc = "done" /\ Len(ChunksOf(t)) >= 2

\* C4: a sendFile call that has run to completion on a file that kept the size
\* S it had at getFileInfo has sent one metadata frame announcing S, then
\* ceil(S / 65536) chunk frames, all of 65536 bytes but the last, which has
\* S mod 65536 bytes (65536 when that is 0), then one complete frame; and the
\* last update naming the file reports a percentage of exactly 100.
C4_FramesOfCompletedSend ==
  \A t \in Tasks :
    (send[t].pc = "done" /\ srcLen[t] = send[t].fileSize) =>
      LET S == send[t].fileSize
          n == (S + 65535) \div 65536
          fr == FramesOf(t)
          ups == UpdatesOf("A", t)
      IN  /\ Len(fr) = n + 2
          /\ fr[1].type = "metadata" /\ fr[1].fileSize = S
          /\ \A i \in 1..n :
               /\ fr[i + 1].type = "chunk"
               /\ fr[i + 1].len <= 65536
               /\ fr[i + 1].off = (i - 1) * 65536
               /\ fr[i + 1].len = IF i < n THEN 65536 ELSE LastChunkLen(S)
          /\ fr[n + 2].type = "complete"
          /\ ups # <<>>
          /\ ups[Len(ups)].pctDen # 0
          /\ ups[Len(ups)].pctNum = 100 * ups[Len(ups)].pctDen

\* C4 witness: a 200000-byte file has been sent to completion in chunk frames
\* of 65536, 65536, 65536 and 3392 bytes.
C4_Witness ==
  \E t \in Tasks :
    /\ send[t].pc = "done"
    /\ srcLen[t] = 200000
    /\ send[t].fileSize = 200000
    /\ Len(ChunksOf(t)) = 4
    /\ \A i \in 1..3 : ChunksOf(t)[i].len = 65536
    /\ ChunksOf(t)[4].len = 3392

\* C5: whenever a sendFile call has sent its complete frame, the payload
\* bytes of the chunk frames it sent add up to the fileSize its metadata
\* frame announced.
C5_CompleteOnlyAfterAllBytes ==
  \A t \in Tasks :
    (\E i \in 1..Len(FramesOf(t)) : FramesOf(t)[i].type = "complete") =>
      TotalLen(ChunksOf(t)) = FramesOf(t)[1].fileSize


\* C1: every output stream the receiver has finalized (and so reports as
\* completed) holds exactly the bytes of the source file whose metadata frame
\* opened it, in order.
C1_RoundTrip ==
  \A id \in Finished :
    /\ \E i \in 1..Len(progress["B"]) : progress["B"][i].status = "completed"
    /\ disk[streams[id].path] = SourceBytes(streams[id].path[1])

\* C2: once nothing is in flight any more, every transfer whose metadata and
\* complete frames the receiver got, and which its user did not cancel, has
\* been reported as completed with the path of its output file.
C2_CompleteIsReported ==
  (Quiet /\ cancels["B"] = 0) =>
    \A t \in Tasks :
      (Sent(t, "metadata") /\ Sent(t, "complete")) =>
        \E i \in 1..Len(progress["B"]) :
          /\ progress["B"][i].status = "completed"
          /\ progress["B"][i].fileName = t
          /\ progress["B"][i].savedPath = <<t, 0>>

\* C6: every update of the receiver with status 'completed' has
\* bytesTransferred equal to fileSize.
C6_CompletedHasAllBytes ==
  \A i \in 1..Len(progress["B"]) :
    progress["B"][i].status = "completed" =>
      progress["B"][i].bytesTransferred = progress["B"][i].fileSize

\* C7: on either peer, among the updates naming one file and up to its first
\* completed, cancelled or error report, bytesTransferred never decreases
\* from one update to the next.
C7_BytesNeverDecrease ==
  \A p \in Peers : \A name \in Tasks :
    LET ups == UpdatesOf(p, name) IN
    \A i \in 1..(Len(ups) - 1) :
      (\A j \in 1..i : ups[j].status = "transferring") =>
        ups[i + 1].bytesTransferred >= ups[i].bytesTransferred

\* C8: every update of the receiver has bytesTransferred <= fileSize and a
\* percentage of at most 100.
C8_ReceivedWithinFileSize ==
  \A i \in 1..Len(progress["B"]) :
    /\ progress["B"][i].bytesTransferred <= progress["B"][i].fileSize
    /\ AtMost100(progress["B"][i])

\* C9: from the moment the receiver has handled a cancel frame until it gets
\* the next metadata frame, receivedMetadata is null, receivedBytes is 0 and
\* writeStreamId is null.
C9_EmptyAfterCancel ==
  lastCancel.by = "cancel" =>
    /\ ~receivedMetadata.present
    /\ receivedBytes = 0
    /\ writeStreamId = 0

\* C10: after a cancel (frame or cancelTransfer) of a receive whose output
\* stream was open, no file exists at the path init-write-stream created for
\* it, and receivedBytes is 0.
C10_NothingLeftAfterCancel ==
  (lastCancel.by # "none" /\ lastCancel.stream # 0) =>
    /\ ~Exists(streams[lastCancel.stream].path)
    /\ receivedBytes = 0

\* the step is the 'data' event of a frame that B takes for a binary chunk
ChunkArrives ==
  /\ chan # <<>>
  /\ chan' = Tail(chan)
  /\ ControlType(Head(chan)) = "none"

\* the step gives the observer of peer p an error: an onErrorCallback call or
\* a progress update with status 'error'
ErrorShown(p) ==
  \/ Len(errors'[p]) > Len(errors[p])
  \/ /\ Len(progress'[p]) > Len(progress[p])
     /\ progress'[p][Len(progress'[p])].status = "error"

\* C11: when a binary chunk frame arrives while B holds no metadata, B shows
\* its observer an error, writes nothing to disk and leaves receivedBytes,
\* receivedMetadata and writeStreamId as they were.
C11_ChunkWithoutMetadataIsReported ==
  [][(ChunkArrives /\ ~receivedMetadata.present) =>
       /\ ErrorShown("B")
       /\ UNCHANGED <<disk, receivedBytes, receivedMetadata, writeStreamId>>]_vars

\* C12: once a session description is applied and nothing waits in the
\* pending queue or in the worker's inbox, the candidates added to the peer
\* connection are all the candidates that were fed in, in the order they
\* were fed in: none fed before the session description is lost.
C12_CandidatesKeptInOrder ==
  (remote.sdp # "none" /\ inbox = <<>> /\ pendingCandidates = <<>>) =>
    remote.candidates = CandidatesOf(fed)

\* the step hands a chunk frame to the channel
ChunkSent ==
  /\ Len(sent') > Len(sent)
  /\ \E i \in (Len(sent) + 1)..Len(sent') : sent'[i].type = "chunk"

\* call t waits in the backpressure loop
Suspended(t) == send[t].pc = "backpressure"

\* C13: no chunk frame is handed to the channel while bufferedAmount exceeds
\* 4 * 65536; a call suspended in the backpressure loop stays there while
\* bufferedAmount is above the mark; and a suspended call does not wait for
\* ever once bufferedAmount is at or below the mark: its own timer makes it
\* send the pending chunk.
C13_Backpressure ==
  /\ [][ChunkSent => bufferedAmount <= 4 * 65536]_vars
  /\ [][\A t \in Tasks :
          (Suspended(t) /\ bufferedAmount > 4 * 65536) => send'[t] = send[t]]_vars
  /\ \A t \in Tasks :
       Suspended(t) ~> (~Suspended(t) \/ bufferedAmount > 4 * 65536)

\* C13 witness: a call that has sent a chunk is suspended with a pending chunk
\* and bufferedAmount has come down to the mark.
C13_Witness ==
  \E t \in Tasks :
    /\ Suspended(t)
    /\ Len(ChunksOf(t)) >= 1
    /\ bufferedAmount = 4 * 65536

\* C14: the path init-write-stream gives a new stream is the first of
\* fileName, "base (1)ext", "base (2)ext", ... that does not exist: no file
\* is at that path when the stream is created, and a file is at every earlier
\* path of the sequence.
C14_FirstFreeName ==
  [][Len(streams') > Len(streams) =>
       LET finalPath == streams'[Len(streams')].path IN
         /\ ~Exists(finalPath)
         /\ \A n \in 0..(finalPath[2] - 1) : Exists(<<finalPath[1], n>>)]_vars

\* C15: a sendFile call made while the peer is not connected (before the
\* connect event, after close, after destroy) fails with the not-connected
\* error, hands no frame to the channel, leaves currentTransfer and
\* transferCancelled as they were and reports no progress.
C15_SendFileNotConnected ==
  [][(~connected /\ nSends' > nSends) =>
       /\ send'[nSends'].pc = "notConnected"
       /\ UNCHANGED <<chan, sent, currentTransfer, transferCancelled,
                      progress>>]_vars

\* C15 witness: a call was refused on a peer that had closed or was
\* destroyed while an earlier transfer was cancelled, and the cancellation
\* flag is still set.
C15_Witness ==
  \E t \in Tasks :
    /\ send[t].pc = "notConnected"
    /\ ended["A"] \in {"closed", "destroyed"}
    /\ transferCancelled
    /\ progress["A"] # <<>>

\* sendFile call t has started and has not returned
Running(t) == send[t].pc \notin {"idle", "notConnected", "done", "failed"}

\* between a metadata frame and the complete or cancel frame of its transfer
\* no other metadata frame was sent
NotInterleaved ==
  \A i, j \in 1..Len(sent) :
    (i < j /\ sent[i].type = "metadata" /\ sent[j].type = "metadata") =>
      \E k \in (i + 1)..(j - 1) :
        sent[k].tid = sent[i].tid /\ sent[k].type \in {"complete", "cancel"}

\* C16: a sendFile call made while an earlier call has not returned is
\* rejected, so at most one call is under way at a time, and the frames of
\* two transfers are never interleaved on the channel, also when the second
\* call follows a cancelTransfer the first loop has not yet seen.
C16_OneTransferAtATime ==
  /\ \A t, u \in Tasks : (Running(t) /\ Running(u)) => t = u
  /\ NotInterleaved

\* cancelTransfer is called on peer p in this step
CancelCalled(p) == cancels'[p] > cancels[p]

\* C17: cancelTransfer called when the transfer of the session is not in
\* status 'transferring' (none yet, or the last one completed, cancelled or
\* in error) changes no reported status and reports no progress: 'cancelled'
\* is only reported for a transfer that was 'transferring' right before.
C17_CancelOnlyWhileTransferring ==
  [][(CancelCalled("A") /\ currentTransfer["A"].status # "transferring") =>
       UNCHANGED <<currentTransfer, progress>>]_vars

\* call t comes to a chunk boundary in this step: its setTimeout(resolve, 0)
\* fires and the loop goes on after the chunk it has just sent
ChunkBoundary(t) == send[t].pc = "yield" /\ send'[t].pc # "yield"

\* the cancel frame of call t is on the channel
CancelSent(t) == \E i \in 1..Len(sent) : sent[i] = CancelFrame(t)

\* C18: when cancelTransfer was called while sendFile is sending, the call
\* sends one cancel frame at its next chunk boundary and fails there, and
\* after the cancel frame no frame of that transfer is sent any more, neither
\* a chunk nor 'complete' nor a second 'cancel'.
C18_CancelAtChunkBoundary ==
  [][\A t \in Tasks :
       /\ (transferCancelled /\ ChunkBoundary(t)) =>
            /\ sent' = sent \o <<CancelFrame(t)>>
            /\ send'[t].pc = "failed"
       /\ CancelSent(t) =>
            \A i \in (Len(sent) + 1)..Len(sent') : sent'[i].tid # t]_vars

\* C19: a cancel by the user is not reported as an error: once
\* cancelTransfer was called during sendFile and 'cancelled' was reported
\* for the transfer, no update with status 'error' follows for it, and when
\* the call has returned the last status reported for it is 'cancelled'.
C19_CancelIsNotAnError ==
  \A t \in Tasks :
    LET ups == UpdatesOf("A", t)
        cancelled == {i \in 1..Len(ups) : ups[i].status = "cancelled"}
    IN  \A i \in cancelled :
          /\ \A j \in (i + 1)..Len(ups) : ups[j].status # "error"
          /\ ~Running(t) => ups[Len(ups)].status = "cancelled"

\* the transport of peer p fails or closes in this step
TransportEnds(p) == ended[p] = "no" /\ ended'[p] \in {"errored", "closed"}

\* the updates peer p's observer is given in this step
NewUpdates(p) ==
  {progress'[p][i] : i \in (Len(progress[p]) + 1)..Len(progress'[p])}

\* C20: when the transport closes or raises an error while a transfer is in
\* progress, the transfer state becomes 'error': currentTransfer.status is
\* 'error' and an error update is given to the observer; and once the
\* transport has ended no update reports 'transferring' or 'completed'.
C20_TransportEndIsAnError ==
  [][\A p \in Peers :
       /\ (TransportEnds(p) /\ currentTransfer[p].status = "transferring") =>
            /\ currentTransfer'[p].status = "error"
            /\ \E u \in NewUpdates(p) : u.status = "error"
       /\ ended[p] \in {"errored", "closed"} =>
            \A u \in NewUpdates(p) :
              u.status \notin {"transferring", "completed"}]_vars

\* destroy() is called on peer p in this step
DestroyCalled(p) == destroys'[p] > destroys[p]

\* C21: destroy is idempotent and callable in any state: a call leaves the
\* peer destroyed and writeStreamId null, and the write stream the session
\* had open is no longer in the table of active streams; a second call finds
\* no stream to cancel, issues no cancelWriteStream and changes nothing.
C21_DestroyIsIdempotent ==
  [][DestroyCalled("B") =>
       /\ ended'["B"] = "destroyed"
       /\ writeStreamId' = 0
       /\ writeStreamId # 0 =>
            streams'[writeStreamId].st \notin {"open", "ending"}
       /\ destroys["B"] >= 1 =>
            /\ writeStreamId = 0
            /\ UNCHANGED <<ended, streams, disk, writeStreamId,
                           writeStreamPath, handlers, receivedMetadata,
                           receivedBytes, currentTransfer, progress>>]_vars

\* B issues in this step an IPC call of one of the kinds for stream id
Issued(kinds, id) ==
  /\ Len(handlers') > Len(handlers)
  /\ handlers'[Len(handlers')].kind \in kinds
  /\ handlers'[Len(handlers')].stream = id

\* finalizeWriteStream(id) or cancelWriteStream(id) is issued in this step
CloseIssued(id) ==
  \/ Issued({"complete", "cancel", "cancelTransfer"}, id)
  \/ DestroyCalled("B") /\ writeStreamId = id

\* C22: every write stream a receive opened is closed by one finalize or
\* cancel call, once: no finalize or cancel is issued for a stream for which
\* one was issued before, and no writeChunk is issued for it after that;
\* under every interleaving of the frames with cancelTransfer and destroy of
\* the receiver.
C22_StreamClosedExactlyOnce ==
  [][\A id \in 1..Len(streams) :
       (CloseIssued(id) \/ Issued({"chunk"}, id)) => streams[id].st = "open"]_vars

\* the initWriteStream, writeChunk or finalizeWriteStream call of a
\* suspended handler rejects in this step
RejectionArrives ==
  \E i \in 1..Len(handlers) :
    /\ CanResume(i)
    /\ handlers[i].kind \in {"metadata", "chunk", "complete"}
    /\ handlers[i].reply = "err"
    /\ handlers' = Others(i, IF handlers[i].kind = "complete"
                               THEN handlers[i].stream ELSE 0, 1)

\* C23: when initWriteStream, writeChunk or finalizeWriteStream rejects
\* during a receive, the transfer ends in error: the observer is given an
\* update with status 'error' and a message, currentTransfer has that
\* status, and the rejection is handled by the receiver.
C23_IoFailureEndsTransfer ==
  [][(RejectionArrives /\ receivedMetadata.present) =>
       /\ \E u \in NewUpdates("B") : u.status = "error" /\ u.error # ""
       /\ currentTransfer'["B"].status = "error"]_vars

\* B handles a metadata frame in this step
MetadataArrives ==
  /\ chan # <<>>
  /\ chan' = Tail(chan)
  /\ ControlType(Head(chan)) = "metadata"

\* C24: a metadata frame that arrives while B holds the metadata of a
\* transfer that no complete or cancel has ended is a protocol violation:
\* the transfer ends with an error shown to the observer, its stream is
\* destroyed, the receiver state is reset, and no new stream is opened on
\* top of the old transfer.
C24_SecondMetadataIsAViolation ==
  [][(MetadataArrives /\ receivedMetadata.present) =>
       /\ ErrorShown("B")
       /\ Len(streams') = Len(streams)
       /\ writeStreamId # 0 => streams'[writeStreamId].st = "destroyed"
       /\ receivedMetadata' = NoMetadata
       /\ receivedBytes' = 0
       /\ writeStreamId' = 0]_vars

\* B holds nothing of a transfer
ReceiverEmpty ==
  /\ ~receivedMetadata.present
  /\ receivedBytes = 0
  /\ writeStreamId = 0

\* what B reported and wrote for the file of call t comes from the chunk
\* frames of call t alone
OwnBytesOnly(t) ==
  /\ \A i \in 1..Len(progress["B"]) :
       progress["B"][i].fileName = t =>
         progress["B"][i].bytesTransferred <= TotalLen(ChunksOf(t))
  /\ \A id \in 1..Len(streams) :
       streams[id].path[1] = t =>
         \A k \in 1..Len(disk[streams[id].path]) :
           disk[streams[id].path][k].tid = t

\* C25: files sent one after another over one channel are independent
\* transfers: once a transfer has ended on the receiver as completed or
\* cancelled and nothing is in flight, the receiver state is empty, and the
\* byte count and the output file of every transfer hold nothing of another
\* transfer.
C25_SequentialTransfersIndependent ==
  /\ (Quiet /\ Returned
        /\ currentTransfer["B"].status \in {"completed", "cancelled"}) =>
       ReceiverEmpty
  /\ \A t \in Tasks : OwnBytesOnly(t)

\* the worker of peer p handles a 'signal' message
HandlesSignal(p) ==
  /\ wbox[p] # <<>>
  /\ Head(wbox[p]).type = "signal"
  /\ wbox'[p] = Tail(wbox[p])

\* the worker of peer p handles 'init'
HandlesInit(p) ==
  /\ wbox[p] # <<>>
  /\ Head(wbox[p]).type = "init"
  /\ wbox'[p] = Tail(wbox[p])

\* the worker of peer p applies a remote description: it handles a signal
\* with an sdp property and nothing is thrown
RemoteApplied(p) ==
  /\ HandlesSignal(p)
  /\ worker[p].pc
  /\ Head(wbox[p]).data.sdp.is # "undefined"
  /\ errors'[p] = errors[p]

\* C26: signaling order by role.  The initiator has its local offer as soon
\* as 'init' is handled, with no remote input; the responder has no local
\* description while no remote description is applied; a responder that
\* applies a remote offer gets a local answer and gathers for it; applying
\* a remote answer changes neither the local description nor its gathering.
C26_SignalingOrderByRole ==
  [][\A p \in Peers :
       /\ (HandlesInit(p) /\ Head(wbox[p]).isInitiator) =>
            /\ worker'[p].local = "offer"
            /\ worker'[p].remote = "none"
       /\ (~worker'[p].initiator /\ worker'[p].remote = "none") =>
            worker'[p].local = "none"
       /\ (RemoteApplied(p) /\ ~worker[p].initiator
             /\ worker'[p].remote = "offer") =>
            /\ worker'[p].local = "answer"
            /\ worker'[p].gathering = "gathering"
       /\ (RemoteApplied(p) /\ worker'[p].remote = "answer") =>
            /\ worker'[p].local = worker[p].local
            /\ worker'[p].gathering = worker[p].gathering
            /\ worker'[p].gathered = worker[p].gathered]_vars

\* both descriptions are applied: the responder answered the offer and the
\* initiator took the answer
C26_Witness ==
  /\ worker["A"].initiator /\ worker["A"].local = "offer"
  /\ worker["A"].remote = "answer"
  /\ ~worker["B"].initiator /\ worker["B"].local = "answer"
  /\ worker["B"].remote = "offer"

\* the worker of peer p handles a 'signal' message whose blob the other
\* peer's onSignal gave, passed as it is
HandlesEmitted(p) ==
  /\ HandlesSignal(p)
  /\ worker[p].pc
  /\ Head(wbox[p]).data \in Emitted(OtherPeer(p))

\* C29: signaling blobs are interoperable.  A description blob given by one
\* peer's onSignal and passed unchanged to the other peer's signal(), in a
\* signaling state that takes it, becomes the remote description there, and
\* an offer is answered; a candidate blob passed unchanged after the remote
\* description is added to the peer connection.
C29_BlobsInteroperable ==
  [][\A p \in Peers :
       HandlesEmitted(p) =>
         LET data == Head(wbox[p]).data IN
           /\ (IsDescription(data) /\ AcceptsRemote(worker[p], data.type)) =>
                /\ worker'[p].remote = data.type
                /\ data.type = "offer" => worker'[p].local = "answer"
           /\ (data.candidate # 0 /\ worker[p].remote # "none") =>
                worker'[p].added = worker[p].added + 1]_vars

\* peer p's onSignal observer is given a blob
SignalEmitted(p) == Len(signals'[p]) > Len(signals[p])

\* C30: each side gives its onSignal observer the local description once
\* per negotiation round, at the moment candidate gathering finishes, and
\* gives it nothing else: no candidate blob before or after.
C30_OneBlobPerRound ==
  [][\A p \in Peers :
       SignalEmitted(p) =>
         /\ signals'[p] = Append(signals[p], LocalDescriptionBlob(worker[p].local))
         /\ worker[p].gathering = "gathering"
         /\ worker'[p].gathering = "complete"]_vars

\* connectToPeer runs
ConnectCalled == calls'.connect > calls.connect

\* the text of the input field is malformed connection data for the
\* session: it is not JSON, or it is no blob the peer takes
Malformed ==
  \/ ~IsJson(peerSignal)
  \/ ~PeerAccepts(sessions[webrtcRef], peerSignal)

\* C27: connectToPeer with malformed connection data, be it text that is
\* not JSON or a blob the transport rejects, shows the user the error
\* 'Invalid connection data', gives the peer connection nothing and leaves
\* the connection state as it was.
C27_MalformedDataIsRejected ==
  [][(ConnectCalled /\ webrtcRef # 0 /\ Malformed) =>
       /\ messages'[Len(messages')] = Message("error", "Invalid connection data")
       /\ sessions' = sessions
       /\ connectionState' = connectionState]_vars

\* initializeConnection runs
StartCalled == calls'.start > calls.start

\* a session is active: the view holds one whose peer has not ended
SessionActive ==
  /\ webrtcRef # 0
  /\ sessions[webrtcRef].peer \in {"open", "connected"}

\* C28: a start made while a session is active fails: an error is shown,
\* no session is created and the session, its peer and the connection
\* state stay as they were.
C28_StartOnlyFromIdle ==
  [][(StartCalled /\ SessionActive) =>
       /\ Len(messages') > Len(messages)
       /\ messages'[Len(messages')].type = "error"
       /\ sessions' = sessions
       /\ webrtcRef' = webrtcRef
       /\ connectionState' = connectionState]_vars

\* the streams init-write-stream created that were neither finalized nor
\* cancelled
OpenStreams == {id \in 1..Len(streams) : streams[id].st = "open"}

\* the initWriteStream call that created stream id has not replied yet
ReplyPending(id) ==
  \E i \in 1..Len(handlers) :
    handlers[i].kind = "metadata" /\ handlers[i].stream = id

\* C36: the receiving session owns at most one open write stream: there is
\* at most one stream that was neither finalized nor cancelled, and it is
\* the one writeStreamId names, or the one whose initWriteStream call is
\* about to reply.
C36_AtMostOneOpenStream ==
  /\ Cardinality(OpenStreams) <= 1
  /\ \A id \in OpenStreams : id = writeStreamId \/ ReplyPending(id)

\* the update peer p's observer was given last is this.currentTransfer
InStep(p) ==
  IF progress[p] = <<>> THEN FALSE
  ELSE progress[p][Len(progress[p])] = currentTransfer[p]

\* C37: the observer is in step with the session: whenever currentTransfer
\* is set, the update given last to the observer equals it, so every change
\* of the transfer was delivered and nothing was delivered that
\* currentTransfer does not record.
C37_ObserverInStep ==
  \A p \in Peers : currentTransfer[p].status # "null" => InStep(p)

\* a receive has failed on B: the transport raised an error, or the
\* transfer is in error, and no handler is suspended any more
ReceiveFailed ==
  /\ ended["B"] = "errored" \/ currentTransfer["B"].status = "error"
  /\ handlers = <<>>

\* the files of streams that were not finalized
PartialFiles ==
  {streams[id].path : id \in {k \in 1..Len(streams) : streams[k].st # "finished"}}

\* C32: after a receive failed (a writeChunk or finalizeWriteStream call
\* rejected, or the transport raised an error during the transfer) the
\* output stream is destroyed: no stream is in the active-stream table,
\* writeStreamId is null and no file of an unfinished stream is left in the
\* downloads directory.
C32_FailedReceiveKeepsNothing ==
  ReceiveFailed =>
    /\ \A id \in 1..Len(streams) : ~Active(id)
    /\ writeStreamId = 0
    /\ PartialFiles \cap DOMAIN disk = {}

\* the transfer UI was closed and nothing of the session is still to run:
\* the peer is destroyed, so no frame comes, and no handler is suspended
ClosedAndSettled == destroys["B"] >= 1 /\ handlers = <<>>

\* C31: closing the transfer UI tears the session down: from then on the
\* session reference is null and the peer is destroyed, and once the
\* handlers that were suspended at the close have run, no write stream of
\* the session is in the active-stream table.
C31_CloseTearsDown ==
  /\ destroys["B"] >= 1 => (webrtcRef = 0 /\ ended["B"] = "destroyed")
  /\ ClosedAndSettled => \A id \in 1..Len(streams) : ~Active(id)

\* sendFile call t is running
InFlight(t) == send[t].pc \notin {"idle", "done", "failed"}

\* C35: a cancel takes effect on a running send: once cancelTransfer was
\* called while sendFile call t runs, the call ends and a 'cancel' frame is
\* sent, whatever bufferedAmount does.
C35_CancelTakesEffect ==
  \A t \in Tasks :
    (transferCancelled /\ InFlight(t)) ~> (~InFlight(t) /\ CancelSent(t))

\* the file paths of the rows of q are pairwise distinct
DistinctPaths(q) ==
  \A i, j \in 1..Len(q) : i # j => q[i].filePath # q[j].filePath

\* a call of addToTransferQueue is made for a path that is queued
AddsQueued ==
  /\ queueOp'.n > queueOp.n
  /\ queueOp'.op = "add"
  /\ RowsOf(queueOp'.path) # <<>>

\* C38: the transfer queue never holds a file path twice.  Whatever
\* getTransferQueue returns has pairwise distinct paths; after
\* addToTransferQueue the path has one row, the one returned; after
\* removeFromTransferQueue the path has none; and adding a path that is
\* queued returns its row and leaves the table as it was.
C38_QueuePathsDistinct ==
  /\ [](/\ \A q \in GetTransferQueue : DistinctPaths(q)
        /\ queueOp.op = "add" =>
             /\ Len(RowsOf(queueOp.path)) = 1
             /\ RowsOf(queueOp.path)[1].id = queueOp.result
        /\ queueOp.op = "remove" => RowsOf(queueOp.path) = <<>>
        /\ queueOp.op = "clear" => transfer_queue = <<>>)
  /\ [][AddsQueued =>
          /\ transfer_queue' = transfer_queue
          /\ queueOp'.result = RowsOf(queueOp'.path)[1].id]_vars

\* a path that is queued was added again, with another path in the queue:
\* the call returned the row that was there, not a new one
C38_Witness ==
  /\ queueOp.op = "add"
  /\ queueOp.result < seq
  /\ Len(transfer_queue) >= 2


\* path t has a row in the transfer queue
Queued(t) == RowsOf(t) # <<>>

\* the step takes file t out of the transfer queue
Unqueued(t) == Queued(t) /\ transfer_queue' = Deleted(t) /\ transfer_queue' # transfer_queue

\* the TransferView.sendFile call of t ends without a successful send: it was
\* refused, or the call it awaited threw
EndsUnsent(t) ==
  /\ viewSend'[t] # viewSend[t]
  /\ viewSend'[t] \in {"refused", "returned"}
  /\ send[t].pc # "done"

\* C39: TransferView.sendFile takes a file out of the transfer queue only
\* when it was called from the queue list and the sendFile call it awaited
\* has returned after sending the file's complete frame; when that call
\* threw (the send failed, was cancelled with a cancel frame, or the peer was
\* not connected) or the view refused to send, the queue stays as it is
C39_RemovedOnlyAfterSuccess ==
  /\ [][\A t \in Tasks :
          Unqueued(t) =>
            /\ viewSend[t] = "queue"
            /\ viewSend'[t] = "returned"
            /\ send[t].pc = "done"
            /\ \E i \in 1..Len(sent) : sent[i] = CompleteFrame(t)]_vars
  /\ [][\A t \in Tasks : EndsUnsent(t) => transfer_queue' = transfer_queue]_vars

\* one queued file was sent and taken out of the queue, another queued file's
\* send failed and it is still queued
C39_Witness ==
  \E t, u \in Tasks :
    /\ viewSend[t] = "returned"
    /\ send[t].pc = "done"
    /\ queueOp.op = "remove"
    /\ queueOp.path = t
    /\ ~Queued(t)
    /\ viewSend[u] = "returned"
    /\ send[u].pc = "failed"
    /\ Queued(u)


\* the NativeWebRTCWorker.sendFile call has returned, its worker has handled
\* every message and run every timer, on a channel that stayed open with no
\* cancellation
WorkerSendOver ==
  /\ workerSend.pc = "done"
  /\ wbox["A"] = <<>>
  /\ completeTimers = 0
  /\ dataChannelOpen
  /\ cancels["A"] = 0

\* the chunk frames of a file of size s, in order
WorkerChunkFrames(s) ==
  [i \in 1..NumChunks(s) |->
     ChunkFrame(1, (i - 1) * CHUNK_SIZE, Min(CHUNK_SIZE, s - (i - 1) * CHUNK_SIZE),
                "none")]

\* C33: on the worker backend a file of any size S >= 0 goes out as one
\* metadata frame, its chunk frames in order and one complete frame; for
\* S = 0 as the metadata frame followed by the complete frame
C33_WorkerSendsWholeFile ==
  WorkerSendOver =>
    dataChannelSent = <<MetadataFrame(1, 1, workerSend.fileSize)>>
                        \o WorkerChunkFrames(workerSend.fileSize)
                        \o <<CompleteFrame(1)>>

\* frame i is a cancel frame sent during the transfer: the metadata frame
\* went out before it
CancelsTransfer(i) ==
  /\ dataChannelSent[i].type = "cancel"
  /\ \E k \in 1..(i - 1) : dataChannelSent[k].type = "metadata"

\* C34: on the worker backend, once the cancel frame of a transfer is sent,
\* no chunk frame and no complete frame of the transfer is sent after it
C34_WorkerCancelStopsFrames ==
  \A i, j \in 1..Len(dataChannelSent) :
    (i < j /\ CancelsTransfer(i)) =>
      dataChannelSent[j].type \notin {"chunk", "complete"}

====
